---- MODULE Spec2Model ----
(***************************************************************************)
(* A model of second_brain_collector: the Notion page-body replacement of  *)
(* the YouTube pipeline (update_page_with_transcript), the thread-pool row *)
(* insertion of the Kindle pipeline (add_quotes_to_database) and the       *)
(* transcript fetcher (get_youtube_transcript).                            *)
(*                                                                         *)
(* Every HTTP call is one step.  A call either returns a response with a   *)
(* status code or raises (a transport error).  The remote service applies  *)
(* a request exactly when it answers 200.  The block listing is taken to   *)
(* return every child of the page (bodies that fit one result page).       *)
(***************************************************************************)
EXTENDS Integers, Sequences, FiniteSets, TLC

\* ------------------------------------------------------------------ bounds

\* Largest number of child blocks of the page before the first update.
MaxBlocks == 2
\* Largest number of transcript chunks passed to one update.
MaxChunks == 2

\* Largest number of quotes, and of notes, passed to add_quotes_to_database.
MaxRows == 4
\* Rows beyond the pool size submitted where the pool is saturated.
PoolExtra == 1
\* Calls the service refuses or drops while the pool is saturated.
PoolFaults == 1

\* ThreadPoolExecutor(max_workers=10)
MaxWorkers == 10

\* Largest number of transcript tracks a video has.
MaxTracks == 2
\* Longest tail behind the marker of a generated link.
MaxTail == 3

\* Largest number of paragraphs in the body of a highlights file.
MaxSections == 2

\* Longest text given to a chunker, and largest chunk_size.
MaxText == 6
MaxSize == 3

\* ------------------------------------------------------------------ inputs

\* The texts a paragraph block or a chunk can carry.
Texts == {"a", "b"}

\* All sequences over S of length at most n.
SeqUpTo(S, n) == UNION {[1..k -> S] : k \in 0..n}

\* What one HTTP call can do: answer with a status code, or raise.
Responses ==
    {[raised |-> FALSE, status |-> 200],
     [raised |-> FALSE, status |-> 500],
     [raised |-> TRUE, status |-> 0]}

VARIABLES
    body,        \* the page's child blocks on the remote service, in order
    nextId,      \* the id the service gives to the next block it creates
    upc,         \* position in update_page_with_transcript
    chunks,      \* its argument transcript_chunks
    blocks,      \* clear_page_content's local `blocks` (the listing's results)
    di,          \* index in `blocks` of the next block the loop deletes
    ret,         \* the value returned ("none" before the return)
    calls,       \* the HTTP calls issued by the current update, in order
    bodyAtCall,  \* the page's child blocks when the current update was called
    prev,        \* the chunks of the update before, and whether it replaced the body
    run          \* which update of the page is under way: "none", "first", "second"

VARIABLES
    quotes,      \* add_quotes_to_database's argument `quotes`
    notes,       \* its argument `notes`
    qpc,         \* position of the calling thread in add_quotes_to_database
    rows,        \* per item of `items`: where its add_single_quote call stands
    attempts,    \* per item: number of page-create calls issued for it
    posts,       \* number of page-create calls issued in all
    created,     \* the rows the remote database holds
    qret,        \* the value returned ("none" before the return)
    faults       \* how many more calls the service may refuse or drop

VARIABLES
    impl,        \* which get_youtube_transcript runs: "class" (the static method
                 \* of YouTubeTranscriptFetcher) or "modular" (src/youtube_transcripts/src)
    fpc,         \* position in get_youtube_transcript
    video_link,  \* its argument
    video_id,    \* the extracted video id
    tracks,      \* `transcript_list`: the tracks list_transcripts returned
    ti,          \* index in `tracks` of the track the running scan looks at
    transcript_text, \* the text joined from the last successful fetch
    fret,        \* the value returned (Unset before the return)
    fcalls       \* the transcript-service calls issued, in order, with outcomes

uvars == <<body, nextId, upc, chunks, blocks, di, ret, calls, bodyAtCall, prev, run>>

qvars == <<quotes, notes, qpc, rows, attempts, posts, created, qret, faults>>

fvars == <<impl, fpc, video_link, video_id, tracks, ti, transcript_text, fret, fcalls>>

\* The text chunkers.
VARIABLES
    cpc,          \* "idle", or which chunker has returned: "chunk_text", "_chunk_text"
    raw_text,     \* the text to split
    chunk_size,   \* the bound passed as chunk_size
    text_chunks   \* the list a chunker returned

cvars == <<cpc, raw_text, chunk_size, text_chunks>>

\* extract_quotes_from_file.
VARIABLES
    epc,          \* "idle", then "returned"
    filename,     \* its argument
    file_content, \* what the file holds
    extracted     \* the tuple returned: content, quotes, notes, page title

evars == <<epc, filename, file_content, extracted>>

\* process_kindle_highlights.
VARIABLES
    kpc,          \* position in process_kindle_highlights
    ksteps,       \* the steps taken so far, in order, each with what it did
    kret          \* the value returned ("none" before the return)

kvars == <<kpc, ksteps, kret>>

\* main() of the YouTube pipeline.
VARIABLES
    ypc,              \* position in main / process_youtube_items
    program,          \* which main runs: "class" (main.py) or "modular" (src/main.py)
    youtube_items,    \* the items get_youtube_items returned
    yi,               \* index in `youtube_items` of the item in hand
    transcript_chunks, \* chunk_text(transcript) of the item in hand
    successful_count, \* process_youtube_items' counter
    handled           \* per item handled so far: its page id and how it ended

yvars == <<ypc, program, youtube_items, yi, transcript_chunks, successful_count, handled>>

\* The run of the other get_youtube_transcript on the same link.
VARIABLES
    ref           \* the first run: which it was, what it returned, its calls

rvars == <<ref>>

vars == <<uvars, qvars, fvars, cvars, evars, kvars, yvars, rvars>>

\* --------------------------------------------------- update_page_with_transcript

TextsOf(bs) == [i \in 1..Len(bs) |-> bs[i].text]
IdsOf(bs) == {bs[i].id : i \in 1..Len(bs)}

\* The call record kept in `calls`.
Call(op, id, texts, resp) == [op |-> op, id |-> id, texts |-> texts, resp |-> resp]

\* `response.status_code != 200` after the block-children listing.
ListFailed_NoCheck(resp) == FALSE
ListFailed(resp) == resp.status # 200

\* `response.json().get("results", [])`: the page's children on a 200, and no
\* "results" key (hence []) in an error body.
ListedBlocks(resp) == IF resp.status = 200 THEN body ELSE <<>>

\* `for block in blocks`: the loop has gone through every listed block.
DeleteLoopDone_SkipLast == di > Len(blocks) - 1
DeleteLoopDone == di > Len(blocks)

\* A non-200 answer to one block delete is printed; the loop goes on.
DeleteFailureReturns_Abort(resp) == resp.status # 200
DeleteFailureReturns(resp) == FALSE

\* The remote service's DELETE /blocks/{id}: the block leaves the page on a 200.
RemoveBlock(bs, id) == SelectSeq(bs, LAMBDA b : b.id # id)

\* `children`: one paragraph block per chunk, in chunk order.
Children_Reversed(cs) == [i \in 1..Len(cs) |-> cs[Len(cs) + 1 - i]]
Children(cs) == cs

\* The remote service's PATCH /blocks/{id}/children: the children are appended
\* after the page's present blocks, with fresh ids, on a 200.
AppendBlocks(bs, cs) ==
    bs \o [i \in 1..Len(cs) |-> [id |-> nextId + i - 1, text |-> cs[i]]]

\* `if response.status_code != 200: print(...); return False`: nothing is done
\* about the blocks already deleted.
AfterFailedAppend_Restore(bs) == bodyAtCall
AfterFailedAppend(bs) == bs

\* `response.status_code != 200` after the append: return False, else True.
UpdateResult(resp) == resp.status = 200

\* No delete call of the current update was refused.
AllDeletesOk == \A i \in 1..Len(calls) :
    calls[i].op = "delete" => calls[i].resp.status = 200

Finished == upc \in {"idle", "returned", "raised", "crashed"}

\* A caller invokes update_page_with_transcript(page_id, transcript_chunks):
\* a first time, and a second time on what the first update left.
CallUpdate(cs) ==
    /\ Finished
    /\ run # "second"
    /\ upc' = "list"
    /\ chunks' = cs
    /\ blocks' = <<>>
    /\ di' = 1
    /\ ret' = "none"
    /\ calls' = <<>>
    /\ bodyAtCall' = body
    /\ prev' = [chunks |-> chunks,
                clean |-> upc = "returned" /\ ret = TRUE /\ AllDeletesOk]
    /\ run' = IF run = "none" THEN "first" ELSE "second"
    /\ UNCHANGED <<body, nextId>>
    /\ UNCHANGED <<qvars, fvars, cvars, evars, kvars, yvars, rvars>>

\* clear_page_content: GET /blocks/{page_id}/children.
ListBlocks(resp) ==
    /\ upc = "list"
    /\ calls' = Append(calls, Call("list", 0, <<>>, resp))
    /\ IF resp.raised
       THEN /\ upc' = "raised"
            /\ UNCHANGED <<blocks, ret>>
       ELSE IF ListFailed(resp)
       THEN /\ upc' = "returned"
            /\ ret' = FALSE
            /\ UNCHANGED blocks
       ELSE /\ upc' = "delete"
            /\ blocks' = ListedBlocks(resp)
            /\ UNCHANGED ret
    /\ UNCHANGED <<body, nextId, chunks, di, bodyAtCall, prev, run>>
    /\ UNCHANGED <<qvars, fvars, cvars, evars, kvars, yvars, rvars>>

\* clear_page_content: one turn of the loop, DELETE /blocks/{block id}.
DeleteBlock(resp) ==
    /\ upc = "delete"
    /\ ~DeleteLoopDone
    /\ calls' = Append(calls, Call("delete", blocks[di].id, <<>>, resp))
    /\ body' = IF resp.status = 200 THEN RemoveBlock(body, blocks[di].id) ELSE body
    /\ IF resp.raised
       THEN /\ upc' = "raised"
            /\ UNCHANGED <<di, ret>>
       ELSE IF DeleteFailureReturns(resp)
       THEN /\ upc' = "returned"
            /\ ret' = FALSE
            /\ UNCHANGED di
       ELSE /\ di' = di + 1
            /\ UNCHANGED <<upc, ret>>
    /\ UNCHANGED <<nextId, chunks, blocks, bodyAtCall, prev, run>>
    /\ UNCHANGED <<qvars, fvars, cvars, evars, kvars, yvars, rvars>>

\* update_page_with_transcript after the clearing returned True: build
\* `children`, PATCH /blocks/{page_id}/children, return by the status.
AppendChildren(resp) ==
    /\ upc = "delete"
    /\ DeleteLoopDone
    /\ calls' = Append(calls, Call("append", 0, Children(chunks), resp))
    /\ body' = IF resp.status = 200
               THEN AppendBlocks(body, Children(chunks))
               ELSE IF resp.raised THEN body ELSE AfterFailedAppend(body)
    /\ nextId' = nextId + Len(body') - Len(body)
    /\ IF resp.raised
       THEN /\ upc' = "raised"
            /\ UNCHANGED ret
       ELSE /\ upc' = "returned"
            /\ ret' = UpdateResult(resp)
    /\ UNCHANGED <<chunks, blocks, di, bodyAtCall, prev, run>>
    /\ UNCHANGED <<qvars, fvars, cvars, evars, kvars, yvars, rvars>>

\* The process stops in the middle of an update.
Crash ==
    /\ upc \in {"list", "delete"}
    /\ upc' = "crashed"
    /\ UNCHANGED <<body, nextId, chunks, blocks, di, ret, calls, bodyAtCall, prev, run>>
    /\ UNCHANGED <<qvars, fvars, cvars, evars, kvars, yvars, rvars>>

InitBodies ==
    {[i \in 1..Len(ts) |-> [id |-> i, text |-> ts[i]]] : ts \in SeqUpTo(Texts, MaxBlocks)}

\* The page-update variables of a process that never updates a page.
UpdateAtRest ==
    /\ body = <<>>
    /\ nextId = 1
    /\ upc = "idle"
    /\ chunks = <<>>
    /\ blocks = <<>>
    /\ di = 1
    /\ ret = "none"
    /\ calls = <<>>
    /\ bodyAtCall = <<>>
    /\ prev = [chunks |-> <<>>, clean |-> FALSE]
    /\ run = "none"

\* The row-insertion variables of a process that never inserts rows.
QuotesAtRest ==
    /\ quotes = <<>>
    /\ notes = <<>>
    /\ qpc = "idle"
    /\ rows = <<>>
    /\ attempts = <<>>
    /\ posts = 0
    /\ created = {}
    /\ qret = "none"
    /\ faults = 0

\* The tuple extract_quotes_from_file returns.
Extraction(content, qs, ns, page_title) ==
    [content |-> content, quotes |-> qs, notes |-> ns, page_title |-> page_title]

ExtractorAtRest ==
    /\ epc = "idle"
    /\ filename = <<>>
    /\ file_content = <<>>
    /\ extracted = Extraction(<<>>, <<>>, <<>>, <<>>)

\* The pipelines and the second run of a process that runs none of them.
NoRun == [impl |-> "none", ret |-> <<"unset">>, calls |-> <<>>, tracks |-> <<>>]

PipelinesAtRest ==
    /\ kpc = "idle"
    /\ ksteps = <<>>
    /\ kret = "none"
    /\ ypc = "idle"
    /\ program = "class"
    /\ youtube_items = <<>>
    /\ yi = 1
    /\ transcript_chunks = <<>>
    /\ successful_count = 0
    /\ handled = <<>>
    /\ ref = NoRun

ChunkerAtRest ==
    /\ cpc = "idle"
    /\ raw_text = <<>>
    /\ chunk_size = 1
    /\ text_chunks = <<>>

\* The fetcher variables of a process that never fetches a transcript.
FetcherAtRest ==
    /\ impl = "class"
    /\ fpc = "idle"
    /\ video_link = <<>>
    /\ video_id = <<>>
    /\ tracks = <<>>
    /\ ti = 1
    /\ transcript_text = <<>>
    /\ fret = <<"unset">>
    /\ fcalls = <<>>

InitUpdate ==
    /\ PipelinesAtRest
    /\ QuotesAtRest
    /\ FetcherAtRest
    /\ ChunkerAtRest
    /\ ExtractorAtRest
    /\ body \in InitBodies
    /\ nextId = Len(body) + 1
    /\ upc = "idle"
    /\ chunks = <<>>
    /\ blocks = <<>>
    /\ di = 1
    /\ ret = "none"
    /\ calls = <<>>
    /\ bodyAtCall = body
    /\ prev = [chunks |-> <<>>, clean |-> FALSE]
    /\ run = "none"

NextUpdate ==
    \/ \E cs \in SeqUpTo(Texts, MaxChunks) : CallUpdate(cs)
    \/ \E resp \in Responses : ListBlocks(resp)
    \/ \E resp \in Responses : DeleteBlock(resp)
    \/ \E resp \in Responses : AppendChildren(resp)
    \/ Crash

SpecUpdate == InitUpdate /\ [][NextUpdate]_vars

\* ------------------------------------------------ claims on the page update

ListOk == Len(calls) >= 1 /\ calls[1].op = "list" /\ calls[1].resp.status = 200
ListRejected == Len(calls) >= 1 /\ calls[1].op = "list"
                /\ ~calls[1].resp.raised /\ calls[1].resp.status # 200
AppendOk == \E i \in 1..Len(calls) : calls[i].op = "append" /\ calls[i].resp.status = 200
AppendRejected == \E i \in 1..Len(calls) :
    calls[i].op = "append" /\ ~calls[i].resp.raised /\ calls[i].resp.status # 200
DeleteRejectedAt(i) == calls[i].op = "delete" /\ ~calls[i].resp.raised
                       /\ calls[i].resp.status # 200
\* Every block the page had at the call has been deleted by a 200 delete call.
AllListedDeleted ==
    /\ ListOk
    /\ Len(calls) >= Len(bodyAtCall) + 1
    /\ \A i \in 1..Len(bodyAtCall) :
         calls[i + 1].op = "delete" /\ calls[i + 1].resp.status = 200

C2_CallOrder ==
    /\ Len(calls) <= Len(bodyAtCall) + 2
    /\ \A i \in 1..Len(calls) :
         /\ (i = 1 => calls[i].op = "list")
         /\ (i > 1 /\ i <= Len(bodyAtCall) + 1 =>
               /\ ListOk
               /\ calls[i].op = "delete"
               /\ calls[i].id = bodyAtCall[i - 1].id)
         /\ (i = Len(bodyAtCall) + 2 =>
               /\ ListOk
               /\ calls[i].op = "append"
               /\ calls[i].texts = chunks)
    /\ (upc = "returned" /\ ListOk => Len(calls) = Len(bodyAtCall) + 2)

C2_Witness ==
    /\ upc = "returned"
    /\ Len(bodyAtCall) = 2
    /\ Len(chunks) = 2 /\ chunks[1] # chunks[2]
    /\ Len(calls) = 4
    /\ DeleteRejectedAt(2)

\* C3: if the block-children listing answers a non-200 status, the update
\* returns False having issued no delete call and no append call, and the
\* page body is exactly as it was.
C3_ListFailureStops ==
    ListRejected =>
        /\ upc = "returned"
        /\ ret = FALSE
        /\ Len(calls) = 1
        /\ body = bodyAtCall

C3_Witness ==
    /\ ListRejected
    /\ upc = "returned"
    /\ Len(bodyAtCall) = 2
    /\ Len(chunks) >= 1

\* C4: the update returns False exactly when the listing or the append
\* answered a non-success status; a block delete answering a non-success
\* status neither ends the update (the remaining deletes and the append still
\* follow) nor changes the returned value.
C4_ReturnValue ==
    /\ (upc = "returned" =>
          /\ ret \in BOOLEAN
          /\ (ret = FALSE <=> (ListRejected \/ AppendRejected))
          /\ (ret = TRUE <=> (ListOk /\ AppendOk)))
    /\ \A i \in 1..Len(calls) :
         DeleteRejectedAt(i) =>
            /\ upc \in {"delete", "returned", "raised", "crashed"}
            /\ (upc = "returned" =>
                  /\ Len(calls) = Len(blocks) + 2
                  /\ calls[Len(calls)].op = "append")

C4_Witness ==
    /\ upc = "returned" /\ ret = TRUE
    /\ Len(bodyAtCall) = 2
    /\ DeleteRejectedAt(2)
    /\ calls[3].op = "delete"

\* C5: there is no compensating action: whenever every listed block has been
\* deleted and the append has not been applied (the process stopped, or the
\* append call failed), the page body is empty, and a block that has left the
\* page never comes back.
C5_EmptyBodyLeft == (AllListedDeleted /\ ~AppendOk) => body = <<>>

C5_NeverRestored ==
    [][\A id \in IdsOf(bodyAtCall) \ IdsOf(body) : id \notin IdsOf(body')]_vars

C5_NoCompensation == []C5_EmptyBodyLeft /\ C5_NeverRestored

C5_Witness ==
    /\ upc = "returned" /\ ret = FALSE
    /\ AppendRejected
    /\ AllListedDeleted
    /\ Len(bodyAtCall) = 2
    /\ Len(chunks) >= 1
    /\ body = <<>>

\* ------------------------------------------------------ add_quotes_to_database

Min(a, b) == IF a < b THEN a ELSE b

\* The k-th quote and the k-th note of an input: texts that differ from row to
\* row and from quote to note; a note can also be the empty string.
QuoteText(k) == <<"quote", k>>
NoteText(k) == <<"note", k>>
NoNote == <<>>

Digits == <<"0", "1", "2", "3", "4", "5", "6", "7", "8", "9">>

\* str(i) for i >= 0: the decimal digits of i.
RECURSIVE Str(_)
Str(i) == IF i < 10 THEN <<Digits[i + 1]>>
          ELSE Str(i \div 10) \o <<Digits[(i % 10) + 1]>>

\* `items = list(enumerate(zip(quotes, notes), 1))`: zip stops at the shorter
\* list, enumerate numbers the pairs from 1.
Items_FromZero(qs, ns) ==
    [k \in 1..Min(Len(qs), Len(ns)) |-> [i |-> k - 1, quote |-> qs[k], note |-> ns[k]]]
Items(qs, ns) ==
    [k \in 1..Min(Len(qs), Len(ns)) |-> [i |-> k, quote |-> qs[k], note |-> ns[k]]]

\* `create_page_data` of add_single_quote: the three properties of the row.
CreatePageData(item) ==
    [label |-> Str(item.i), quote |-> item.quote, note |-> item.note]

\* add_single_quote's return value: `response.status_code != 200` gives False.
AddSingleQuoteResult(resp) == resp.status = 200

\* The pool has a worker that is not running a call: at most max_workers
\* threads exist and each runs one work item at a time.
InFlight == {k \in DOMAIN rows : rows[k] = "inflight"}
WorkerFree_Unbounded == TRUE
WorkerFree == Cardinality(InFlight) < MaxWorkers

\* `sum(results)`: the number of True results.
SuccessCount_Len(rs) == Len(rs)
SuccessCount(rs) == Cardinality({k \in DOMAIN rs : rs[k] = "ok"})

\* The caller invokes add_quotes_to_database: executor.map submits every item,
\* in order, before any result is looked at.
CallAddQuotes ==
    /\ qpc = "idle"
    /\ qpc' = "running"
    /\ rows' = [k \in DOMAIN Items(quotes, notes) |-> "queued"]
    /\ attempts' = [k \in DOMAIN Items(quotes, notes) |-> 0]
    /\ UNCHANGED <<quotes, notes, posts, created, qret, faults>>
    /\ UNCHANGED <<uvars, fvars, cvars, evars, kvars, yvars, rvars>>

\* A worker takes the oldest queued item and add_single_quote issues its
\* POST /v1/pages.
StartRow(k) ==
    /\ qpc \in {"running", "unwinding"}
    /\ k \in DOMAIN rows
    /\ rows[k] = "queued"
    /\ \A j \in 1..(k - 1) : rows[j] # "queued"
    /\ WorkerFree
    /\ rows' = [rows EXCEPT ![k] = "inflight"]
    /\ attempts' = [attempts EXCEPT ![k] = @ + 1]
    /\ posts' = posts + 1
    /\ UNCHANGED <<quotes, notes, qpc, created, qret, faults>>
    /\ UNCHANGED <<uvars, fvars, cvars, evars, kvars, yvars, rvars>>

\* The POST of item k ends: the service creates the row and answers 200, or
\* refuses it, or the call raises; add_single_quote returns True or False, or
\* the exception is kept in the item's future.
CompleteRow(k, resp) ==
    /\ k \in DOMAIN rows
    /\ rows[k] = "inflight"
    /\ resp.status # 200 => faults > 0
    /\ faults' = IF resp.status # 200 THEN faults - 1 ELSE faults
    /\ created' = IF resp.status = 200
                  THEN created \cup {CreatePageData(Items(quotes, notes)[k])}
                  ELSE created
    /\ rows' = [rows EXCEPT ![k] =
                  IF resp.raised THEN "raised"
                  ELSE IF AddSingleQuoteResult(resp) THEN "ok" ELSE "failed"]
    /\ UNCHANGED <<quotes, notes, qpc, attempts, posts, qret>>
    /\ UNCHANGED <<uvars, fvars, cvars, evars, kvars, yvars, rvars>>

\* `list(executor.map(...))` reads the results in item order; reaching an item
\* whose call raised, the result iterator re-raises and cancels every future
\* that has not started.
CancelPending ==
    /\ qpc = "running"
    /\ \E k \in DOMAIN rows :
         /\ rows[k] = "raised"
         /\ \A j \in 1..(k - 1) : rows[j] \in {"ok", "failed"}
    /\ rows' = [k \in DOMAIN rows |-> IF rows[k] = "queued" THEN "cancelled" ELSE rows[k]]
    /\ qpc' = "unwinding"
    /\ UNCHANGED <<quotes, notes, attempts, posts, created, qret, faults>>
    /\ UNCHANGED <<uvars, fvars, cvars, evars, kvars, yvars, rvars>>

\* Leaving the `with` block waits for the running calls (shutdown(wait=True));
\* then the exception leaves add_quotes_to_database.
Reraise ==
    /\ qpc = "unwinding"
    /\ InFlight = {}
    /\ qpc' = "raised"
    /\ UNCHANGED <<quotes, notes, rows, attempts, posts, created, qret, faults>>
    /\ UNCHANGED <<uvars, fvars, cvars, evars, kvars, yvars, rvars>>

\* Every result is True or False: `return sum(results)`.
ReturnCount ==
    /\ qpc = "running"
    /\ \A k \in DOMAIN rows : rows[k] \in {"ok", "failed"}
    /\ qret' = SuccessCount(rows)
    /\ qpc' = "returned"
    /\ UNCHANGED <<quotes, notes, rows, attempts, posts, created, faults>>
    /\ UNCHANGED <<uvars, fvars, cvars, evars, kvars, yvars, rvars>>

\* Any quotes and notes of up to MaxRows entries each; any call may fail.
InitQuotes ==
    /\ PipelinesAtRest
    /\ UpdateAtRest
    /\ FetcherAtRest
    /\ ChunkerAtRest
    /\ ExtractorAtRest
    /\ \E n \in 0..MaxRows : quotes = [k \in 1..n |-> QuoteText(k)]
    /\ \E m \in 0..MaxRows : \E e \in SUBSET (1..m) :
         notes = [k \in 1..m |-> IF k \in e THEN NoNote ELSE NoteText(k)]
    /\ qpc = "idle"
    /\ rows = <<>>
    /\ attempts = <<>>
    /\ posts = 0
    /\ created = {}
    /\ qret = "none"
    /\ faults = MaxRows

\* More rows than the pool has workers; up to PoolFaults calls fail.
InitPool ==
    /\ PipelinesAtRest
    /\ UpdateAtRest
    /\ FetcherAtRest
    /\ ChunkerAtRest
    /\ ExtractorAtRest
    /\ \E n \in (MaxWorkers + 1)..(MaxWorkers + PoolExtra) :
         /\ quotes = [k \in 1..n |-> QuoteText(k)]
         /\ notes = [k \in 1..n |-> NoteText(k)]
    /\ qpc = "idle"
    /\ rows = <<>>
    /\ attempts = <<>>
    /\ posts = 0
    /\ created = {}
    /\ qret = "none"
    /\ faults = PoolFaults

NextQuotes ==
    \/ CallAddQuotes
    \/ \E k \in DOMAIN rows : StartRow(k)
    \/ \E k \in DOMAIN rows : \E resp \in Responses : CompleteRow(k, resp)
    \/ CancelPending
    \/ Reraise
    \/ ReturnCount

SpecQuotes == InitQuotes /\ [][NextQuotes]_vars

SpecPool == InitPool /\ [][NextQuotes]_vars

\* ------------------------------------------------ claims on the row insertion

\* N: the number of quote/note pairs.
NumPairs == Min(Len(quotes), Len(notes))

DigitValue(c) == CHOOSE d \in 0..9 : Digits[d + 1] = c

\* The number a decimal label denotes.
RECURSIVE ParseDec(_)
ParseDec(s) == IF Len(s) = 0 THEN 0
               ELSE 10 * ParseDec(SubSeq(s, 1, Len(s) - 1)) + DigitValue(s[Len(s)])

RowsWith(st) == {k \in DOMAIN rows : rows[k] = st}

\* C6: add_quotes_to_database over N quote/note pairs never issues more than
\* N page-create calls nor two for one pair, and when it returns it has issued
\* exactly N and the integer returned is the number of calls that succeeded
\* (the rows the service created), in every completion order.
C6_CallsAndCount ==
    /\ posts <= NumPairs
    /\ \A k \in DOMAIN attempts : attempts[k] <= 1
    /\ (qpc = "returned" =>
          /\ posts = NumPairs
          /\ qret = Cardinality(created)
          /\ qret = Cardinality(RowsWith("ok")))

\* Three pairs, the second refused, the count returned is two.
C6_Witness ==
    /\ qpc = "returned"
    /\ NumPairs = 3
    /\ Len(rows) = 3
    /\ rows[2] = "failed"
    /\ qret = 2
    /\ Len(notes) # Len(quotes)

\* C7: a failing row never aborts its siblings and no row is retried: whatever
\* the outcome of the other rows' calls, when add_quotes_to_database is over
\* every row has been attempted exactly once, and a failed row counts as a
\* failure in the returned count.
C7_SiblingsNeverAborted ==
    (qpc \in {"returned", "raised"}) =>
        /\ \A k \in DOMAIN attempts : attempts[k] = 1
        /\ (qpc = "returned" =>
              qret = NumPairs - Cardinality(RowsWith("failed")))

\* C8: in every interleaving, the row created for the k-th pair carries the
\* label k, the k-th quote and the k-th note: every row the service holds is
\* such a row, and every call that succeeded left its row.
C8_LabelsMatch ==
    /\ \A r \in created :
         /\ ParseDec(r.label) \in 1..NumPairs
         /\ r.label = Str(ParseDec(r.label))
         /\ r.quote = quotes[ParseDec(r.label)]
         /\ r.note = notes[ParseDec(r.label)]
    /\ \A k \in RowsWith("ok") :
         \E r \in created : ParseDec(r.label) = k

\* The third and second rows are created while the first call is still on
\* its way.
C8_Witness ==
    /\ NumPairs = 3
    /\ Len(rows) = 3
    /\ rows[1] = "inflight"
    /\ rows[2] = "ok"
    /\ rows[3] = "ok"
    /\ Cardinality(created) = 2

\* C9: at every moment at most 10 page-create calls are in flight, however
\* many rows are submitted.
C9_AtMostTenInFlight == Cardinality(InFlight) <= 10

\* Ten calls in flight and a further row waiting for a worker.
C9_Witness ==
    /\ Cardinality(InFlight) = 10
    /\ RowsWith("queued") # {}
    /\ NumPairs > 10

\* ------------------------------------------------------ get_youtube_transcript
\* A Python str is the sequence of its characters.

\* The last index at which `sub` occurs in `s`, 0 if it does not occur.
Find_Last(s, sub) ==
    LET Here(i) == s[i] = sub[1] /\ SubSeq(s, i, i + Len(sub) - 1) = sub
        last == Len(s) - Len(sub) + 1
    IN  IF \A i \in 1..last : ~Here(i) THEN 0
        ELSE CHOOSE i \in 1..last : Here(i) /\ \A j \in (i + 1)..last : ~Here(j)

\* The first index at which `sub` occurs in `s`, 0 if it does not occur.
Find(s, sub) ==
    LET Here(i) == s[i] = sub[1] /\ SubSeq(s, i, i + Len(sub) - 1) = sub
        last == Len(s) - Len(sub) + 1
    IN  IF \A i \in 1..last : ~Here(i) THEN 0
        ELSE CHOOSE i \in 1..last : Here(i) /\ \A j \in 1..(i - 1) : ~Here(j)

\* `sub in s`
Contains(s, sub) == Find(s, sub) # 0

\* s.split(sep): the pieces of s between the occurrences of sep, left to right.
RECURSIVE Split(_, _)
Split(s, sep) ==
    LET i == Find(s, sep)
    IN  IF i = 0 THEN <<s>>
        ELSE <<SubSeq(s, 1, i - 1)>> \o Split(SubSeq(s, i + Len(sep), Len(s)), sep)

\* " ".join(part["text"] for part in parts)
RECURSIVE Join(_)
Join(parts) ==
    IF Len(parts) = 0 THEN <<>>
    ELSE IF Len(parts) = 1 THEN parts[1]
    ELSE parts[1] \o <<" ">> \o Join(Tail(parts))

\* s.startswith(p)
StartsWith(s, p) == Len(s) >= Len(p) /\ SubSeq(s, 1, Len(p)) = p

\* A video_link that is not a str, and a video_id that was never set.
None == <<"None">>
\* No value returned yet.
Unset == <<"unset">>

\* "youtube.com/watch?v=", "v=", "&", "youtu.be/", "?", "youtube.com/shorts/", "shorts/"
WatchMarker == <<"y", "o", "u", "t", "u", "b", "e", ".", "c", "o", "m", "/", "w", "a", "t", "c", "h", "?", "v", "=">>
VEquals == <<"v", "=">>
Ampersand == <<"&">>
ShortLinkMarker == <<"y", "o", "u", "t", "u", ".", "b", "e", "/">>
QuestionMark == <<"?">>
ShortsMarker == <<"y", "o", "u", "t", "u", "b", "e", ".", "c", "o", "m", "/", "s", "h", "o", "r", "t", "s", "/">>
ShortsSplit == <<"s", "h", "o", "r", "t", "s", "/">>

\* The video id taken as all that follows the marker.
ExtractVideoId_WholeTail(link) ==
    IF link = None THEN [raised |-> TRUE, id |-> None]
    ELSE IF Contains(link, WatchMarker)
    THEN [raised |-> FALSE, id |-> Split(link, VEquals)[2]]
    ELSE IF Contains(link, ShortLinkMarker)
    THEN [raised |-> FALSE, id |-> Split(link, ShortLinkMarker)[2]]
    ELSE IF Contains(link, ShortsMarker)
    THEN [raised |-> FALSE, id |-> Split(link, ShortsSplit)[2]]
    ELSE [raised |-> FALSE, id |-> None]

\* The video id taken from the link: the three `if`/`elif` branches; testing a
\* link that is not a str raises TypeError.
ExtractVideoId(link) ==
    IF link = None THEN [raised |-> TRUE, id |-> None]
    ELSE IF Contains(link, WatchMarker)
    THEN [raised |-> FALSE, id |-> Split(Split(link, VEquals)[2], Ampersand)[1]]
    ELSE IF Contains(link, ShortLinkMarker)
    THEN [raised |-> FALSE, id |-> Split(Split(link, ShortLinkMarker)[2], QuestionMark)[1]]
    ELSE IF Contains(link, ShortsMarker)
    THEN [raised |-> FALSE, id |-> Split(Split(link, ShortsSplit)[2], QuestionMark)[1]]
    ELSE [raised |-> FALSE, id |-> None]

\* `not video_id`: None or the empty string.
NoVideoId(id) == id = None \/ id = <<>>

\* str(e) of the exception a service call raises.
ExcText == <<"n", "o">>
\* str(e) of the TypeError of a link that is not a str.
TypeErrorText == <<"a", "r", "g", "u", "m", "e", "n", "t", " ", "o", "f", " ", "t", "y", "p", "e", " ", "'", "N", "o", "n", "e", "T", "y", "p", "e", "'", " ", "i", "s", " ", "n", "o", "t", " ", "i", "t", "e", "r", "a", "b", "l", "e">>

\* "Error: Invalid YouTube URL format"
InvalidUrlResult == <<"E", "r", "r", "o", "r", ":", " ", "I", "n", "v", "a", "l", "i", "d", " ", "Y", "o", "u", "T", "u", "b", "e", " ", "U", "R", "L", " ", "f", "o", "r", "m", "a", "t">>

\* "Error: No usable transcript found in any language"
NoUsableResult_Empty == <<>>
NoUsableResult == <<"E", "r", "r", "o", "r", ":", " ", "N", "o", " ", "u", "s", "a", "b", "l", "e", " ", "t", "r", "a", "n", "s", "c", "r", "i", "p", "t", " ", "f", "o", "u", "n", "d", " ", "i", "n", " ", "a", "n", "y", " ", "l", "a", "n", "g", "u", "a", "g", "e">>

\* f"Error: No transcripts available: {str(inner_e)}"
NoTranscriptsResult(msg) == <<"E", "r", "r", "o", "r", ":", " ", "N", "o", " ", "t", "r", "a", "n", "s", "c", "r", "i", "p", "t", "s", " ", "a", "v", "a", "i", "l", "a", "b", "l", "e", ":", " ">> \o msg

\* f"Error getting transcript: {str(e)}"
ErrorGettingResult(msg) == <<"E", "r", "r", "o", "r", " ", "g", "e", "t", "t", "i", "n", "g", " ", "t", "r", "a", "n", "s", "c", "r", "i", "p", "t", ":", " ">> \o msg

\* The links get_youtube_transcript is called with: one of each recognised
\* shape, two of no recognised shape, one with no id behind the marker, and a
\* value that is not a str.
\* "https://www.youtube.com/watch?v=abc123&t=5"
WatchLink == <<"h", "t", "t", "p", "s", ":", "/", "/", "w", "w", "w", ".", "y", "o", "u", "t", "u", "b", "e", ".", "c", "o", "m", "/", "w", "a", "t", "c", "h", "?", "v", "=", "a", "b", "c", "1", "2", "3", "&", "t", "=", "5">>
\* "https://youtu.be/xyz789?si=foo"
ShortLink == <<"h", "t", "t", "p", "s", ":", "/", "/", "y", "o", "u", "t", "u", ".", "b", "e", "/", "x", "y", "z", "7", "8", "9", "?", "s", "i", "=", "f", "o", "o">>
\* "https://www.youtube.com/shorts/qqq111"
ShortsLink == <<"h", "t", "t", "p", "s", ":", "/", "/", "w", "w", "w", ".", "y", "o", "u", "t", "u", "b", "e", ".", "c", "o", "m", "/", "s", "h", "o", "r", "t", "s", "/", "q", "q", "q", "1", "1", "1">>
\* "https://example.com/video"
OtherSiteLink == <<"h", "t", "t", "p", "s", ":", "/", "/", "e", "x", "a", "m", "p", "l", "e", ".", "c", "o", "m", "/", "v", "i", "d", "e", "o">>
\* "https://www.youtube.com/embed/abc123"
EmbedLink == <<"h", "t", "t", "p", "s", ":", "/", "/", "w", "w", "w", ".", "y", "o", "u", "t", "u", "b", "e", ".", "c", "o", "m", "/", "e", "m", "b", "e", "d", "/", "a", "b", "c", "1", "2", "3">>
\* "https://youtu.be/"
BareShortLink == <<"h", "t", "t", "p", "s", ":", "/", "/", "y", "o", "u", "t", "u", ".", "b", "e", "/">>

VideoLinks ==
    {WatchLink, ShortLink, ShortsLink, OtherSiteLink, EmbedLink, BareShortLink, None}

\* The segment texts of a transcript.
SegHi == <<"h", "i">>
SegYo == <<"y", "o">>
SegError == <<"E", "r", "r", "o", "r">>

\* What a fetch of the transcript service does: it raises, or it returns the
\* transcript's parts.
FetchOutcomes ==
    {[kind |-> "raise", parts |-> <<>>],
     [kind |-> "parts", parts |-> <<>>],
     [kind |-> "parts", parts |-> <<SegHi>>],
     [kind |-> "parts", parts |-> <<SegYo, SegHi>>],
     [kind |-> "parts", parts |-> <<SegError, SegYo>>]}

\* A track: transcript.is_generated and transcript.language_code.
Tracks == [is_generated : BOOLEAN, language_code : {"en", "de"}]

\* What list_transcripts does: it raises, or it returns the video's tracks.
ListOutcomes ==
    {[kind |-> "raise", tracks |-> <<>>]}
    \cup {[kind |-> "tracks", tracks |-> ts] : ts \in SeqUpTo(Tracks, MaxTracks)}

\* The record of one service call kept in `fcalls`: the operation, the loop
\* it is made from (0: before the loops, 1: first loop, 2: second loop), the
\* index of the track, and what the call did.
ServiceCall(op, scan, track, out) ==
    [op |-> op, scan |-> scan, track |-> track, kind |-> out.kind, parts |-> out.parts]

\* `except Exception as e` of the outermost try: every Exception is caught.
CaughtByOutermost(exc) == TRUE

\* What is done with the text of a fetched track: the static method returns
\* it whatever it is; the modular _get_fallback_transcript tests
\* `if transcript_text:` and goes on to the next track when it is empty.
Accepts(text) == impl = "class" \/ text # <<>>

\* `return <value>` from get_youtube_transcript.
Return(value) ==
    /\ fpc' = "done"
    /\ fret' = value

\* get_youtube_transcript(video_link) is called: the video id is extracted; a
\* missing id returns the URL-format error, an exception is caught by the
\* outermost handler.
GetYoutubeTranscript(which, link) ==
    /\ fpc = "idle"
    /\ impl' = which
    /\ video_link' = link
    /\ LET x == ExtractVideoId(link)
       IN  IF x.raised
           THEN /\ IF CaughtByOutermost(TypeErrorText)
                   THEN Return(ErrorGettingResult(TypeErrorText))
                   ELSE fpc' = "escaped" /\ UNCHANGED fret
                /\ UNCHANGED video_id
           ELSE IF NoVideoId(x.id)
           THEN /\ Return(InvalidUrlResult)
                /\ video_id' = x.id
           ELSE /\ fpc' = "english"
                /\ video_id' = x.id
                /\ UNCHANGED fret
    /\ UNCHANGED <<tracks, ti, transcript_text, fcalls>>
    /\ UNCHANGED <<uvars, qvars, cvars, evars, kvars, yvars, rvars>>

\* YouTubeTranscriptApi.get_transcript(video_id, languages=["en"]).
FetchEnglish(out) ==
    /\ fpc = "english"
    /\ fcalls' = Append(fcalls, ServiceCall("get_transcript", 0, 0, out))
    /\ IF out.kind = "parts"
       THEN /\ transcript_text' = Join(out.parts)
            /\ Return(Join(out.parts))
       ELSE /\ fpc' = "list"
            /\ UNCHANGED <<transcript_text, fret>>
    /\ UNCHANGED <<impl, video_link, video_id, tracks, ti>>
    /\ UNCHANGED <<uvars, qvars, cvars, evars, kvars, yvars, rvars>>

\* YouTubeTranscriptApi.list_transcripts(video_id).
ListTranscripts(out) ==
    /\ fpc = "list"
    /\ fcalls' = Append(fcalls, [op |-> "list_transcripts", scan |-> 0, track |-> 0,
                                 kind |-> out.kind, parts |-> <<>>])
    /\ IF out.kind = "tracks"
       THEN /\ tracks' = out.tracks
            /\ ti' = 1
            /\ fpc' = "auto"
            /\ UNCHANGED fret
       ELSE /\ Return(NoTranscriptsResult(ExcText))
            /\ UNCHANGED <<tracks, ti>>
    /\ UNCHANGED <<impl, video_link, video_id, transcript_text>>
    /\ UNCHANGED <<uvars, qvars, cvars, evars, kvars, yvars, rvars>>

\* First loop, a track that is not auto-generated: nothing is called.
PassManualTrack ==
    /\ fpc = "auto"
    /\ ti <= Len(tracks)
    /\ ~tracks[ti].is_generated
    /\ ti' = ti + 1
    /\ UNCHANGED <<impl, fpc, video_link, video_id, tracks, transcript_text, fret, fcalls>>
    /\ UNCHANGED <<uvars, qvars, cvars, evars, kvars, yvars, rvars>>

\* First loop, an auto-generated track: transcript.fetch().
FetchGenerated(out) ==
    /\ fpc = "auto"
    /\ ti <= Len(tracks)
    /\ tracks[ti].is_generated
    /\ fcalls' = Append(fcalls, ServiceCall("fetch", 1, ti, out))
    /\ IF out.kind = "parts"
       THEN /\ transcript_text' = Join(out.parts)
            /\ IF tracks[ti].language_code # "en"
               THEN /\ fpc' = "translate"
                    /\ UNCHANGED <<ti, fret>>
               ELSE IF Accepts(Join(out.parts))
               THEN /\ Return(Join(out.parts))
                    /\ UNCHANGED ti
               ELSE /\ ti' = ti + 1
                    /\ UNCHANGED <<fpc, fret>>
       ELSE /\ ti' = ti + 1
            /\ UNCHANGED <<fpc, transcript_text, fret>>
    /\ UNCHANGED <<impl, video_link, video_id, tracks>>
    /\ UNCHANGED <<uvars, qvars, cvars, evars, kvars, yvars, rvars>>

\* transcript.translate("en").fetch(); on an exception the untranslated text
\* is kept.
Translate(out) ==
    /\ fpc = "translate"
    /\ fcalls' = Append(fcalls, ServiceCall("translate", 1, ti, out))
    /\ transcript_text' = IF out.kind = "parts" THEN Join(out.parts) ELSE transcript_text
    /\ IF Accepts(transcript_text')
       THEN /\ Return(transcript_text')
            /\ UNCHANGED ti
       ELSE /\ fpc' = "auto"
            /\ ti' = ti + 1
            /\ UNCHANGED fret
    /\ UNCHANGED <<impl, video_link, video_id, tracks>>
    /\ UNCHANGED <<uvars, qvars, cvars, evars, kvars, yvars, rvars>>

\* The first loop is over without a return: the second loop starts.
EndGeneratedScan ==
    /\ fpc = "auto"
    /\ ti > Len(tracks)
    /\ fpc' = "manual"
    /\ ti' = 1
    /\ UNCHANGED <<impl, video_link, video_id, tracks, transcript_text, fret, fcalls>>
    /\ UNCHANGED <<uvars, qvars, cvars, evars, kvars, yvars, rvars>>

\* Second loop, any track: transcript.fetch().
FetchAnyTrack(out) ==
    /\ fpc = "manual"
    /\ ti <= Len(tracks)
    /\ fcalls' = Append(fcalls, ServiceCall("fetch", 2, ti, out))
    /\ IF out.kind = "parts"
       THEN /\ transcript_text' = Join(out.parts)
            /\ IF Accepts(Join(out.parts))
               THEN /\ Return(Join(out.parts))
                    /\ UNCHANGED ti
               ELSE /\ ti' = ti + 1
                    /\ UNCHANGED <<fpc, fret>>
       ELSE /\ ti' = ti + 1
            /\ UNCHANGED <<fpc, transcript_text, fret>>
    /\ UNCHANGED <<impl, video_link, video_id, tracks>>
    /\ UNCHANGED <<uvars, qvars, cvars, evars, kvars, yvars, rvars>>

\* Both loops are over without a return.
ReturnNoUsable ==
    /\ fpc = "manual"
    /\ ti > Len(tracks)
    /\ Return(NoUsableResult)
    /\ UNCHANGED <<impl, video_link, video_id, tracks, ti, transcript_text, fcalls>>
    /\ UNCHANGED <<uvars, qvars, cvars, evars, kvars, yvars, rvars>>

InitFetch ==
    /\ PipelinesAtRest
    /\ UpdateAtRest
    /\ QuotesAtRest
    /\ FetcherAtRest
    /\ ChunkerAtRest
    /\ ExtractorAtRest

NextFetch ==
    \/ \E which \in {"class", "modular"} : \E link \in VideoLinks :
          GetYoutubeTranscript(which, link)
    \/ \E out \in FetchOutcomes : FetchEnglish(out)
    \/ \E out \in ListOutcomes : ListTranscripts(out)
    \/ PassManualTrack
    \/ \E out \in FetchOutcomes : FetchGenerated(out)
    \/ \E out \in FetchOutcomes : Translate(out)
    \/ EndGeneratedScan
    \/ \E out \in FetchOutcomes : FetchAnyTrack(out)
    \/ ReturnNoUsable

SpecFetch == InitFetch /\ [][NextFetch]_vars

\* The video-id extraction on its own, over links built from a scheme (or a
\* query fragment in front of it), the marker of a shape (or another site)
\* and every tail of at most MaxTail characters among "a", "&" and "?".
Scheme == <<"h", "t", "t", "p", "s", ":", "/", "/">>
OtherSite == <<"e", "x", "a", "m", "p", "l", "e", ".", "c", "o", "m", "/">>
LinkHeads == {Scheme, VEquals \o Scheme}
LinkPaths == {WatchMarker, ShortLinkMarker, ShortsMarker, OtherSite}
TailChars == {"a", "&", "?"}

ExtractLinks ==
    {h \o m \o t : h \in LinkHeads, m \in LinkPaths, t \in SeqUpTo(TailChars, MaxTail)}

NextExtract ==
    \E which \in {"class", "modular"} : \E link \in ExtractLinks :
        GetYoutubeTranscript(which, link)

SpecExtract == InitFetch /\ [][NextExtract]_vars

\* ------------------------------------------------ claims on the fetcher

\* A value a caller can use as a str: a sequence of characters.
IsStr(v) == v # None /\ v # Unset

ErrorPrefix == <<"E", "r", "r", "o", "r">>

\* No call of the transcript service handed a transcript back.
NoTranscriptObtained == \A i \in 1..Len(fcalls) : fcalls[i].kind # "parts"

\* C10: get_youtube_transcript never raises, whatever the link and whatever
\* the transcript-service calls do: it always ends by returning a str, and
\* when no service call handed a transcript back (unrecognised link, listing
\* failure, every track fetch failing) that str begins with "Error".
C10_NeverRaises ==
    /\ fpc # "escaped"
    /\ (fpc = "done" =>
          /\ IsStr(fret)
          /\ (NoTranscriptObtained => StartsWith(fret, ErrorPrefix)))

\* Both scans went through two tracks, every fetch raising.
C10_Witness ==
    /\ fpc = "done"
    /\ Len(tracks) = 2
    /\ Len(fcalls) >= 4
    /\ NoTranscriptObtained
    /\ fret = NoUsableResult

\* ------------------------------------------------ claims on the fallback scans

\* The calls of `fcalls` that are track fetches made from loop k.
ScanFetches(k) == {i \in 1..Len(fcalls) : fcalls[i].op = "fetch" /\ fcalls[i].scan = k}

\* Call i handed back a transcript, and its space-joined text.
Succeeded(i) == fcalls[i].kind = "parts"
TextOf(i) == Join(fcalls[i].parts)

MinOf(S) == CHOOSE i \in S : \A j \in S : i <= j

\* The successful first-loop fetches of a track whose language is not "en".
ForeignFetched ==
    {i \in ScanFetches(1) : Succeeded(i) /\ tracks[fcalls[i].track].language_code # "en"}

\* C11: once the "en" fetch has failed and an auto-generated track in another
\* language has been fetched successfully, the translation to "en" is the next
\* call and get_youtube_transcript returns right after it: the space-joined
\* translated text if the translation succeeded, the space-joined untranslated
\* text of that track if it raised.
C11_TranslationFallback ==
    ForeignFetched # {} =>
        LET i == MinOf(ForeignFetched)
        IN  IF i = Len(fcalls) THEN fpc = "translate"
            ELSE /\ fcalls[i + 1].op = "translate"
                 /\ fpc = "done"
                 /\ fret = IF Succeeded(i + 1) THEN TextOf(i + 1) ELSE TextOf(i)

\* C12: the first loop fetches auto-generated tracks only, in listing order
\* and without passing one over; once one of these fetches has succeeded,
\* nothing is called any more but the translation of that track, the result is
\* the text of that track (or of its translation), and no manual track is ever
\* fetched.
C12_GeneratedFirst ==
    /\ \A i \in ScanFetches(1) :
          /\ tracks[fcalls[i].track].is_generated
          /\ \A t \in 1..(fcalls[i].track - 1) :
                tracks[t].is_generated =>
                    \E j \in ScanFetches(1) : j < i /\ fcalls[j].track = t
    /\ \A i, j \in ScanFetches(1) : i < j => fcalls[i].track < fcalls[j].track
    /\ LET S == {i \in ScanFetches(1) : Succeeded(i)}
       IN  S # {} =>
             LET i == MinOf(S)
             IN  /\ fpc \in {"translate", "done"}
                 /\ \A j \in (i + 1)..Len(fcalls) :
                       fcalls[j].op = "translate" /\ fcalls[j].track = fcalls[i].track
                 /\ \A j \in 1..Len(fcalls) :
                       fcalls[j].op = "fetch" => tracks[fcalls[j].track].is_generated
                 /\ (fpc = "done" => fret \in {TextOf(j) : j \in i..Len(fcalls)})

\* C13: the second loop is entered only when no first-loop fetch of an
\* auto-generated track succeeded; it fetches manual tracks only, so that no
\* auto-generated track is fetched a second time, and get_youtube_transcript
\* returns the text of the first second-loop fetch that succeeds.
C13_ManualOnlySecondScan ==
    /\ (fpc = "manual" \/ ScanFetches(2) # {}) =>
          \A i \in ScanFetches(1) : ~Succeeded(i)
    /\ \A i \in ScanFetches(2) : ~tracks[fcalls[i].track].is_generated
    /\ LET S == {i \in ScanFetches(2) : Succeeded(i)}
       IN  S # {} => (fpc = "done" /\ fret = TextOf(MinOf(S)))

\* C14: a track fetch that raises never ends get_youtube_transcript: the
\* loop goes on behind that track, and the "no usable transcript" result is
\* returned only after both loops are through with every fetch they attempted
\* having failed.
C14_FetchFailuresSwallowed ==
    /\ fpc # "escaped"
    /\ (Len(fcalls) > 0 /\ fcalls[Len(fcalls)].op = "fetch" /\ ~Succeeded(Len(fcalls))) =>
          LET last == fcalls[Len(fcalls)]
          IN  /\ (fpc = "done" =>
                    fret = NoUsableResult /\ last.scan = 2 /\ last.track = Len(tracks))
              /\ ((fpc = "auto" /\ last.scan = 1) => ti > last.track)
              /\ ((fpc = "manual" /\ last.scan = 2) => ti > last.track)
    /\ ((fpc = "done" /\ fret = NoUsableResult) =>
          \A i \in ScanFetches(1) \cup ScanFetches(2) : ~Succeeded(i))

\* ------------------------------------------------ claims on the video id

\* The indexes at which `m` occurs in `s`.
Occurrences(s, m) == {i \in 1..(Len(s) - Len(m) + 1) : SubSeq(s, i, i + Len(m) - 1) = m}

\* The text of `s` behind the first occurrence of `m`.
After(s, m) == SubSeq(s, MinOf(Occurrences(s, m)) + Len(m), Len(s))

\* The text of `s` in front of its first character that is in `stops`.
UpTo(s, stops) ==
    LET I == {i \in 1..Len(s) : s[i] \in stops}
    IN  IF I = {} THEN s ELSE SubSeq(s, 1, MinOf(I) - 1)

\* The text of `s` in front of its first occurrence of `m`, all of `s` if
\* there is none.
Before(s, m) ==
    IF Occurrences(s, m) = {} THEN s ELSE SubSeq(s, 1, MinOf(Occurrences(s, m)) - 1)

\* The shape of a link that is a str, the first of the three that matches.
Shape(link) ==
    IF Occurrences(link, WatchMarker) # {} THEN "watch"
    ELSE IF Occurrences(link, ShortLinkMarker) # {} THEN "short"
    ELSE IF Occurrences(link, ShortsMarker) # {} THEN "shorts"
    ELSE "other"

\* get_youtube_transcript has been called and has taken the id from the link.
Extracted == fpc # "idle" /\ video_link # None

\* C15: the three example links give the ids "abc123", "xyz789" and "qqq111";
\* "https://example.com/video", like every link of none of the three shapes,
\* gives no id, and get_youtube_transcript then returns
\* "Error: Invalid YouTube URL format" without any call of the transcript
\* service.
C15_ExtractionExamples ==
    /\ (Extracted /\ video_link = WatchLink) => video_id = <<"a", "b", "c", "1", "2", "3">>
    /\ (Extracted /\ video_link = ShortLink) => video_id = <<"x", "y", "z", "7", "8", "9">>
    /\ (Extracted /\ video_link = ShortsLink) => video_id = <<"q", "q", "q", "1", "1", "1">>
    /\ Shape(OtherSiteLink) = "other"
    /\ (Extracted /\ Shape(video_link) = "other") =>
          /\ video_id = None
          /\ fpc = "done"
          /\ fret = InvalidUrlResult
          /\ fcalls = <<>>

\* "https://example.com/video" was refused.
C15_Witness ==
    /\ video_link = OtherSiteLink
    /\ fpc = "done"
    /\ fret = InvalidUrlResult

\* C16 as stated: for a link of one of the three shapes the id is the text
\* behind the shape's marker up to the next "&" or "?" or the end of the link,
\* and so holds neither "&" nor "?".
C16_StopsAtEitherDelimiter ==
    (Extracted /\ Shape(video_link) # "other") =>
        LET marker == IF Shape(video_link) = "watch" THEN WatchMarker
                      ELSE IF Shape(video_link) = "short" THEN ShortLinkMarker
                      ELSE ShortsMarker
        IN  /\ video_id = UpTo(After(video_link, marker), {"&", "?"})
            /\ \A i \in 1..Len(video_id) : video_id[i] \notin {"&", "?"}

\* C16 amended: the id of a watch link is the text between the first "v=" of
\* the link and the next "v=", the next "&" or the end of the link; the id of
\* a youtu.be link is the text between the first "youtu.be/" and the next
\* "youtu.be/", the next "?" or the end; the id of a shorts link is the text
\* between the first "shorts/" and the next "shorts/", the next "?" or the
\* end. A watch id holds no "&", the other ids no "?".
C16_StopsAtShapeDelimiter ==
    Extracted =>
        /\ Shape(video_link) = "watch" =>
              video_id = UpTo(Before(After(video_link, VEquals), VEquals), {"&"})
        /\ Shape(video_link) = "short" =>
              video_id = UpTo(Before(After(video_link, ShortLinkMarker), ShortLinkMarker), {"?"})
        /\ Shape(video_link) = "shorts" =>
              video_id = UpTo(Before(After(video_link, ShortsSplit), ShortsSplit), {"?"})
        /\ Shape(video_link) = "watch" => \A i \in 1..Len(video_id) : video_id[i] # "&"
        /\ Shape(video_link) \in {"short", "shorts"} =>
              \A i \in 1..Len(video_id) : video_id[i] # "?"

\* A youtu.be link whose id is followed by "&": the id keeps the "&".
C16_Witness ==
    /\ Extracted
    /\ video_link = Scheme \o ShortLinkMarker \o <<"a", "&", "a">>
    /\ video_id = <<"a", "&", "a">>

\* ------------------------------------------------------------ the chunkers
\* chunk_text is textwrap.wrap(text, width=chunk_size, replace_whitespace=False,
\* break_long_words=False), every other option of TextWrapper at its default
\* (drop_whitespace and break_on_hyphens are on). A text is made of letters
\* ("a"), hyphens and blanks.

ChunkChars == {"a", "-", " "}

\* The character of s at index i, "" outside of s.
At(s, i) == IF i \in 1..Len(s) THEN s[i] ELSE ""

\* The classes of the word-splitting pattern of TextWrapper: whitespace, a
\* letter ([^\d\W]), a word character (\w) and word punctuation ([\w!"'&.,?]).
\* The letters are "a" and the letters of a transcript's segments.
Letters == {"a", "h", "i", "y", "o", "E", "r"}
IsSpace(c) == c = " "
IsLetter(c) == c \in Letters
IsWordChar(c) == c \in Letters
IsWordPunct(c) == c \in Letters

\* The number of hyphens in a row in s from index p on.
HyphenRun(s, p) ==
    LET K == {k \in 0..(Len(s) - p + 1) : \A i \in p..(p + k - 1) : s[i] = "-"}
    IN  CHOOSE k \in K : \A j \in K : k >= j

\* -{2,} followed by a word character: a dash, from index p on.
DashAhead(s, p) == HyphenRun(s, p) >= 2 /\ IsWordChar(At(s, p + HyphenRun(s, p)))

\* The hyphen at index h ends a piece of a hyphenated word: two letters, or
\* letter-hyphen-letter, in front of it, and a letter and (after an optional
\* hyphen) another letter behind it.
HyphenBreak(s, h) ==
    /\ At(s, h) = "-"
    /\ \/ IsLetter(At(s, h - 2)) /\ IsLetter(At(s, h - 1))
       \/ IsLetter(At(s, h - 3)) /\ At(s, h - 2) = "-" /\ IsLetter(At(s, h - 1))
    /\ IsLetter(At(s, h + 1))
    /\ \/ IsLetter(At(s, h + 2))
       \/ At(s, h + 2) = "-" /\ IsLetter(At(s, h + 3))

\* The index of the last character of the piece that wordsep_re matches from
\* index p on: a run of whitespace; a dash between two words; or the shortest
\* run of other characters that ends with the hyphen of a hyphenated word, at
\* the end of the word, or in front of a dash.
ChunkEnd(s, p) ==
    IF IsSpace(s[p])
    THEN LET K == {k \in p..Len(s) : \A i \in p..k : IsSpace(s[i])}
         IN  CHOOSE k \in K : \A j \in K : k >= j
    ELSE IF IsWordPunct(At(s, p - 1)) /\ DashAhead(s, p)
    THEN p + HyphenRun(s, p) - 1
    ELSE LET Ends(n) == \/ HyphenBreak(s, p + n)
                        \/ p + n > Len(s)
                        \/ IsSpace(At(s, p + n))
                        \/ IsWordPunct(At(s, p + n - 1)) /\ DashAhead(s, p + n)
             N == {n \in 1..(Len(s) - p + 1) : Ends(n)}
             n == CHOOSE m \in N : \A j \in N : m <= j
         IN  IF HyphenBreak(s, p + n) THEN p + n ELSE p + n - 1

\* TextWrapper._split: the pieces of s from index p on.
RECURSIVE SplitChunks(_, _)
SplitChunks(s, p) ==
    IF p > Len(s) THEN <<>>
    ELSE <<SubSeq(s, p, ChunkEnd(s, p))>> \o SplitChunks(s, ChunkEnd(s, p) + 1)

\* piece.strip() == ''
IsBlank(piece) == \A i \in 1..Len(piece) : IsSpace(piece[i])

\* ''.join(pieces), and its length.
RECURSIVE Concat(_)
Concat(pieces) == IF pieces = <<>> THEN <<>> ELSE pieces[1] \o Concat(Tail(pieces))

\* How many of the leading pieces fit on one line of the given width.
RECURSIVE Fitting(_, _)
Fitting(pieces, width) ==
    IF pieces = <<>> \/ Len(pieces[1]) > width THEN 0
    ELSE 1 + Fitting(Tail(pieces), width - Len(pieces[1]))

\* break_long_words=False: a piece too long for any line is put on a line of
\* its own, whole, when the line is still empty (break_long_words=True would
\* break it at the width, as the _Break variant does).
HandleLongWord_Break(pieces, cur_line, width) ==
    IF pieces # <<>> /\ Len(pieces[1]) > width /\ cur_line = <<>>
    THEN [line |-> <<SubSeq(pieces[1], 1, width)>>,
          rest |-> <<SubSeq(pieces[1], width + 1, Len(pieces[1]))>> \o Tail(pieces)]
    ELSE [line |-> cur_line, rest |-> pieces]
HandleLongWord(pieces, cur_line, width) ==
    IF pieces # <<>> /\ Len(pieces[1]) > width /\ cur_line = <<>>
    THEN [line |-> <<pieces[1]>>, rest |-> Tail(pieces)]
    ELSE [line |-> cur_line, rest |-> pieces]

\* TextWrapper._wrap_chunks: the lines made of the pieces; `started` tells
\* that a line has been made already. A blank piece is dropped at the start
\* of every line but the first and at the end of every line.
RECURSIVE WrapChunks(_, _, _)
WrapChunks(pieces, width, started) ==
    IF pieces = <<>> THEN <<>>
    ELSE LET todo == IF started /\ IsBlank(pieces[1]) THEN Tail(pieces) ELSE pieces
             k == Fitting(todo, width)
             h == HandleLongWord(SubSeq(todo, k + 1, Len(todo)), SubSeq(todo, 1, k), width)
             cur_line == IF h.line # <<>> /\ IsBlank(h.line[Len(h.line)])
                         THEN SubSeq(h.line, 1, Len(h.line) - 1)
                         ELSE h.line
         IN  IF cur_line # <<>>
             THEN <<Concat(cur_line)>> \o WrapChunks(h.rest, width, TRUE)
             ELSE WrapChunks(h.rest, width, started)

\* chunk_text(text, chunk_size)
ChunkTextResult(text, size) == WrapChunks(SplitChunks(text, 1), size, FALSE)

\* _chunk_text(text, chunk_size): [text[i : i + chunk_size] for i in
\* range(0, len(text), chunk_size)]; the last slice may be shorter than
\* chunk_size (the _FullOnly variant leaves it out).
RawSlices_FullOnly(text, size) ==
    [k \in 1..(Len(text) \div size) |-> SubSeq(text, (k - 1) * size + 1, k * size)]
RawSlices(text, size) ==
    [k \in 1..((Len(text) + size - 1) \div size) |->
        SubSeq(text, (k - 1) * size + 1, Min(k * size, Len(text)))]

\* YouTubeTranscriptFetcher.chunk_text / chunk_text is called.
ChunkText ==
    /\ cpc = "idle"
    /\ cpc' = "chunk_text"
    /\ text_chunks' = ChunkTextResult(raw_text, chunk_size)
    /\ UNCHANGED <<raw_text, chunk_size>>
    /\ UNCHANGED <<uvars, qvars, fvars, evars, kvars, yvars, rvars>>

\* NotionClient._chunk_text is called.
SliceText ==
    /\ cpc = "idle"
    /\ cpc' = "_chunk_text"
    /\ text_chunks' = RawSlices(raw_text, chunk_size)
    /\ UNCHANGED <<raw_text, chunk_size>>
    /\ UNCHANGED <<uvars, qvars, fvars, evars, kvars, yvars, rvars>>

InitChunk ==
    /\ PipelinesAtRest
    /\ UpdateAtRest
    /\ QuotesAtRest
    /\ FetcherAtRest
    /\ ExtractorAtRest
    /\ cpc = "idle"
    /\ raw_text \in SeqUpTo(ChunkChars, MaxText)
    /\ chunk_size \in 1..MaxSize
    /\ text_chunks = <<>>

NextChunk ==
    \/ ChunkText
    \/ SliceText

SpecChunk == InitChunk /\ [][NextChunk]_vars

\* ------------------------------------------------ claims on the chunkers

\* C17: whatever the text and the bound, every chunk a chunker returns, the
\* word-wrap chunk_text as well as the slicing _chunk_text, is at most
\* chunk_size characters long.
C17_ChunksWithinBound ==
    cpc # "idle" => \A i \in 1..Len(text_chunks) : Len(text_chunks[i]) <= chunk_size

\* C18: the slices _chunk_text returns, concatenated in order, are the text
\* it was given, no slice is empty, and the empty text gives the empty list.
C18_SlicesRebuildText ==
    cpc = "_chunk_text" =>
        /\ Concat(text_chunks) = raw_text
        /\ \A i \in 1..Len(text_chunks) : text_chunks[i] # <<>>
        /\ (raw_text = <<>> => text_chunks = <<>>)

\* A text of five characters cut into slices of two: the last slice is short.
C18_Witness ==
    /\ cpc = "_chunk_text"
    /\ Len(raw_text) = 5
    /\ chunk_size = 2
    /\ Len(text_chunks) = 3

\* The characters of s that are not whitespace, and the index in s of the
\* n-th of them.
NonSpace(s) == SelectSeq(s, LAMBDA c : ~IsSpace(c))
NthNonSpace(s, n) ==
    CHOOSE i \in 1..Len(s) :
        ~IsSpace(s[i]) /\ Cardinality({j \in 1..i : ~IsSpace(s[j])}) = n

\* s.split(): the whitespace-delimited words of s.
RECURSIVE Words(_)
Words(s) ==
    IF s = <<>> THEN <<>>
    ELSE IF IsSpace(s[1]) THEN Words(Tail(s))
    ELSE LET K == {k \in 1..Len(s) : \A i \in 1..k : ~IsSpace(s[i])}
             k == CHOOSE m \in K : \A j \in K : m >= j
         IN  <<SubSeq(s, 1, k)>> \o Words(SubSeq(s, k + 1, Len(s)))

\* The words of the chunks, chunk after chunk.
RECURSIVE WordsAcross(_)
WordsAcross(cs) == IF cs = <<>> THEN <<>> ELSE Words(cs[1]) \o WordsAcross(Tail(cs))

\* C19 as stated: the words read across the chunks of chunk_text, each word
\* inside one chunk, are the whitespace-delimited words of the text in order.
C19_WordsKeptWhole ==
    cpc = "chunk_text" => WordsAcross(text_chunks) = Words(raw_text)

\* The number of non-whitespace characters in the first i chunks.
NonSpaceUpTo(cs, i) == Len(NonSpace(Concat(SubSeq(cs, 1, i))))

\* C19 amended: chunk_text loses, adds and reorders no character that is not
\* whitespace, and where the end of a chunk falls inside a whitespace-delimited
\* word of the text, it falls right behind or right in front of a hyphen.
C19_BreaksOnlyAtHyphens ==
    cpc = "chunk_text" =>
        /\ NonSpace(Concat(text_chunks)) = NonSpace(raw_text)
        /\ \A i \in 1..(Len(text_chunks) - 1) :
              LET n == NonSpaceUpTo(text_chunks, i)
                  a == NthNonSpace(raw_text, n)
                  b == NthNonSpace(raw_text, n + 1)
              IN  (n >= 1 /\ b = a + 1) => (raw_text[a] = "-" \/ raw_text[b] = "-")

\* "aa-aa" wrapped at width 3 is broken behind its hyphen.
C19_Witness ==
    /\ cpc = "chunk_text"
    /\ raw_text = <<"a", "a", "-", "a", "a">>
    /\ chunk_size = 3
    /\ text_chunks = <<<<"a", "a", "-">>, <<"a", "a">>>>

\* ------------------------------------------------ extract_quotes_from_file

\* "\n"
NL == <<"\n">>

\* The characters str.strip() takes off.
PyWhitespace(c) == c \in {" ", "\n", "\t"}

\* s.strip(): from the first to the last character that is not whitespace.
Strip(s) ==
    IF \A i \in 1..Len(s) : PyWhitespace(s[i]) THEN <<>>
    ELSE SubSeq(s,
                CHOOSE i \in 1..Len(s) :
                    ~PyWhitespace(s[i]) /\ \A j \in 1..(i - 1) : PyWhitespace(s[j]),
                CHOOSE i \in 1..Len(s) :
                    ~PyWhitespace(s[i]) /\ \A j \in (i + 1)..Len(s) : PyWhitespace(s[j]))

\* s[n:]
Drop(s, n) == SubSeq(s, n + 1, Len(s))

\* file.readlines(): the lines of the content; a last line need not end
\* with "\n".
Lines(content) ==
    LET pieces == Split(content, NL)
    IN  IF pieces[Len(pieces)] = <<>> THEN SubSeq(pieces, 1, Len(pieces) - 1) ELSE pieces

\* lines[6] or lines[7] raises IndexError.
MetadataMissing(lines) == Len(lines) < 8

\* lines[6].strip()[9:].split(":", 1)[0].strip() and lines[7].strip()[10:].strip()
TitlePrefixLen == 9
AuthorPrefixLen == 10
TitleOf_KeepsSubtitle(lines) == Strip(Drop(Strip(lines[7]), TitlePrefixLen))
TitleOf(lines) == Strip(Split(Drop(Strip(lines[7]), TitlePrefixLen), <<":">>)[1])
AuthorOf(lines) == Strip(Drop(Strip(lines[8]), AuthorPrefixLen))

\* Path(filename).stem: the last component of the path without its last
\* suffix.
Stem(path) ==
    LET S == {i \in 1..Len(path) : path[i] = "/"}
        name == IF S = {} THEN path
                ELSE SubSeq(path, (CHOOSE i \in S : \A j \in S : i >= j) + 1, Len(path))
        D == {i \in 2..(Len(name) - 1) : name[i] = "."}
    IN  IF D = {} THEN name
        ELSE SubSeq(name, 1, (CHOOSE i \in D : \A j \in D : i >= j) - 1)

\* "Unknown" and " - "
UnknownAuthor == <<"U", "n", "k", "n", "o", "w", "n">>
TitleSeparator == <<" ", "-", " ">>

\* f"{author} - {title}", with the fallback of the `except` branch.
PageTitle(path, lines) ==
    IF MetadataMissing(lines)
    THEN UnknownAuthor \o TitleSeparator \o Stem(path)
    ELSE AuthorOf(lines) \o TitleSeparator \o TitleOf(lines)

\* re.findall(r"> (.*?)(?:\n\n|$)", content, re.DOTALL) from index `from` on:
\* the group starts behind the next "> " and ends in front of the next "\n\n",
\* or where `$` matches: at the end of the content or in front of its last
\* character when that is "\n".
RECURSIVE RawSections(_, _)
RawSections(content, from) ==
    LET Marker(i) == content[i] = ">" /\ content[i + 1] = " "
        BlankLine(j) == At(content, j) = "\n" /\ At(content, j + 1) = "\n"
        End(j) == \/ BlankLine(j)
                  \/ j = Len(content) + 1
                  \/ j = Len(content) /\ content[j] = "\n"
    IN  IF \A i \in from..(Len(content) - 1) : ~Marker(i) THEN <<>>
        ELSE LET g == 2 + CHOOSE i \in from..(Len(content) - 1) :
                              Marker(i) /\ \A j \in from..(i - 1) : ~Marker(j)
                 e == CHOOSE j \in g..(Len(content) + 1) :
                          End(j) /\ \A k \in g..(j - 1) : ~End(k)
             IN  <<SubSeq(content, g, e - 1)>>
                 \o RawSections(content, IF BlankLine(e) THEN e + 2 ELSE e)

\* The limit of a quote, the length kept of a longer one, and the ellipsis
\* put behind it: `if len(quote) > 2000: quote = quote[:1997] + "..."`.
QuoteLimit == 2000
KeptLength == 1997
Ellipsis == <<".", ".", ".">>
LimitQuote_KeepAll(quote) == quote
LimitQuote(quote) ==
    IF Len(quote) > QuoteLimit THEN SubSeq(quote, 1, KeptLength) \o Ellipsis ELSE quote

\* section.strip().split("\n")
SectionLines(section) == Split(Strip(section), NL)

\* The quote of a section: its first line, stripped and limited.
QuoteOf(section_lines) == LimitQuote(Strip(section_lines[1]))

\* The note of a section: its second line without the leading "-", when
\* there is one and it starts with "-"; "" otherwise.
NoteOf(section_lines) ==
    IF Len(section_lines) > 1 /\ StartsWith(Strip(section_lines[2]), <<"-">>)
    THEN Strip(Drop(Strip(section_lines[2]), 1))
    ELSE <<>>

\* extract_quotes_from_file(filename): the file is read, the metadata and
\* the sections are taken from it, and the tuple is returned. `lines`,
\* `raw_sections` and the `section_lines` of every section are computed once.
ExtractQuotesFromFile ==
    /\ epc = "idle"
    /\ epc' = "returned"
    /\ \E lines \in {Lines(file_content)} :
       \E raw_sections \in {RawSections(file_content, 1)} :
       \E parsed \in {[k \in 1..Len(raw_sections) |-> SectionLines(raw_sections[k])]} :
          extracted' = Extraction(file_content,
                                  [k \in 1..Len(parsed) |-> QuoteOf(parsed[k])],
                                  [k \in 1..Len(parsed) |-> NoteOf(parsed[k])],
                                  PageTitle(filename, lines))
    /\ UNCHANGED <<filename, file_content>>
    /\ UNCHANGED <<uvars, qvars, fvars, cvars, kvars, yvars, rvars>>

\* The highlights files given to extract_quotes_from_file: a header, then at
\* most MaxSections paragraphs.

\* A line of n characters, none of them whitespace: the digits in turn.
LongLine(n) == [i \in 1..n |-> Digits[(i % 10) + 1]]

\* Eight header lines, "- Title: Daily Stoic: 366" at index 6 and
\* "- Author: Ryan Holiday" at index 7, and a blank line.
FullHeader == <<"x", "\n", "x", "\n", "x", "\n", "x", "\n", "x", "\n", "x", "\n", "-", " ", "T", "i", "t", "l", "e", ":", " ", "D", "a", "i", "l", "y", " ", "S", "t", "o", "i", "c", ":", " ", "3", "6", "6", "\n", "-", " ", "A", "u", "t", "h", "o", "r", ":", " ", "R", "y", "a", "n", " ", "H", "o", "l", "i", "d", "a", "y", "\n", "\n">>

Headers == {<<>>, FullHeader}

\* "> First quote\n- a note\n\n", "> Second quote\n\n", "> Last quote\n"
\* and "> Lone quote": a paragraph with a note, one without, and two that
\* end the file without a blank line.
NotedParagraph == <<">", " ", "F", "i", "r", "s", "t", " ", "q", "u", "o", "t", "e", "\n", "-", " ", "a", " ", "n", "o", "t", "e", "\n", "\n">>
PlainParagraph == <<">", " ", "S", "e", "c", "o", "n", "d", " ", "q", "u", "o", "t", "e", "\n", "\n">>
LastParagraph == <<">", " ", "L", "a", "s", "t", " ", "q", "u", "o", "t", "e", "\n">>
LoneParagraph == <<">", " ", "L", "o", "n", "e", " ", "q", "u", "o", "t", "e">>

\* A paragraph whose first line has n characters, and one whose first line
\* has n characters between blanks and is followed by a note.
LongParagraph(n) == <<">", " ">> \o LongLine(n) \o <<"\n", "\n">>
PaddedParagraph(n) ==
    <<">", " ", " ", " ">> \o LongLine(n) \o <<" ", " ", "\n", "-", " ", "n", "\n", "\n">>

Paragraphs ==
    {NotedParagraph, PlainParagraph, LastParagraph, LoneParagraph,
     LongParagraph(QuoteLimit), LongParagraph(QuoteLimit + 1),
     LongParagraph(QuoteLimit + 5), PaddedParagraph(QuoteLimit)}

\* "notes/Daily Stoic.txt" and "highlights"
Filenames == {<<"n", "o", "t", "e", "s", "/", "D", "a", "i", "l", "y", " ", "S", "t", "o", "i", "c", ".", "t", "x", "t">>, <<"h", "i", "g", "h", "l", "i", "g", "h", "t", "s">>}

InitExtractQuotes ==
    /\ PipelinesAtRest
    /\ UpdateAtRest
    /\ QuotesAtRest
    /\ FetcherAtRest
    /\ ChunkerAtRest
    /\ epc = "idle"
    /\ filename \in Filenames
    /\ \E h \in Headers : \E ps \in SeqUpTo(Paragraphs, MaxSections) :
          file_content = h \o Concat(ps)
    /\ extracted = Extraction(<<>>, <<>>, <<>>, <<>>)

NextExtractQuotes == ExtractQuotesFromFile

SpecExtractQuotes == InitExtractQuotes /\ [][NextExtractQuotes]_vars

\* Highlights files of short lines: the headers and the paragraphs an export
\* can hold, well-formed or not.

\* The header with the lines of index 6 and 7 written without a prefix:
\* "Title: Daily Stoic: 366..." and "Author: Ryan Holiday".
BareHeader == <<"x", "\n", "x", "\n", "x", "\n", "x", "\n", "x", "\n", "x", "\n", "T", "i", "t", "l", "e", ":", " ", "D", "a", "i", "l", "y", " ", "S", "t", "o", "i", "c", ":", " ", "3", "6", "6", ".", ".", ".", "\n", "A", "u", "t", "h", "o", "r", ":", " ", "R", "y", "a", "n", " ", "H", "o", "l", "i", "d", "a", "y", "\n", "\n">>

\* A header whose lines of index 6 and 7 are "- T" and "- A".
ShortHeader == <<"x", "\n", "x", "\n", "x", "\n", "x", "\n", "x", "\n", "x", "\n", "-", " ", "T", "\n", "-", " ", "A", "\n", "\n">>

\* A header that ends with the line of index 6.
CutHeader == <<"x", "\n", "x", "\n", "x", "\n", "x", "\n", "x", "\n", "x", "\n", "-", " ", "T", "i", "t", "l", "e", ":", " ", "D", "a", "i", "l", "y", " ", "S", "t", "o", "i", "c", ":", " ", "3", "6", "6", "\n">>

ExportHeaders == {<<>>, FullHeader, BareHeader, ShortHeader, CutHeader}

\* "> Second quote" at the end of the file; "> q\n  - n\n\n", a note line
\* that is indented; "> q\nmore\n\n", a second line that is no note;
\* "see > this\n\n", a paragraph with "> " inside its line; "> \n- n\n\n", a
\* quote line with nothing behind the marker, and a note.
ClosingParagraph == <<">", " ", "S", "e", "c", "o", "n", "d", " ", "q", "u", "o", "t", "e">>
IndentedNote == <<">", " ", "q", "\n", " ", " ", "-", " ", "n", "\n", "\n">>
TwoLineQuote == <<">", " ", "q", "\n", "m", "o", "r", "e", "\n", "\n">>
StrayParagraph == <<"s", "e", "e", " ", ">", " ", "t", "h", "i", "s", "\n", "\n">>
EmptyQuote == <<">", " ", "\n", "-", " ", "n", "\n", "\n">>

ShortParagraphs ==
    {NotedParagraph, PlainParagraph, LastParagraph, LoneParagraph, ClosingParagraph,
     IndentedNote, TwoLineQuote, StrayParagraph, EmptyQuote}

InitHighlights ==
    /\ PipelinesAtRest
    /\ UpdateAtRest
    /\ QuotesAtRest
    /\ FetcherAtRest
    /\ ChunkerAtRest
    /\ epc = "idle"
    /\ filename \in Filenames
    /\ \E h \in ExportHeaders : \E ps \in SeqUpTo(ShortParagraphs, MaxSections) :
          file_content = h \o Concat(ps)
    /\ extracted = Extraction(<<>>, <<>>, <<>>, <<>>)

SpecHighlights == InitHighlights /\ [][NextExtractQuotes]_vars

\* ------------------------------------------------ claims on the extraction

\* The stripped first line of a block.
FirstLine(section) == Strip(SectionLines(section)[1])

\* C20: every quote extract_quotes_from_file returns has at most 2000
\* characters: where the stripped first line of the block is longer than
\* 2000 characters the quote is its first 1997 characters followed by "...",
\* 2000 characters in all; a first line of 2000 characters or fewer is
\* returned as it is.
C20_QuoteLengthLimit ==
    epc = "returned" =>
        LET sections == RawSections(file_content, 1)
        IN  /\ Len(extracted.quotes) = Len(sections)
            /\ \A k \in 1..Len(extracted.quotes) :
                  LET line == FirstLine(sections[k])
                      quote == extracted.quotes[k]
                  IN  /\ Len(quote) <= 2000
                      /\ IF Len(line) > 2000
                         THEN /\ quote = SubSeq(line, 1, 1997) \o <<".", ".", ".">>
                              /\ Len(quote) = 2000
                         ELSE quote = line

\* A first line of 2001 characters was cut, behind one of 2000 characters
\* that was kept.
C20_Witness ==
    /\ epc = "returned"
    /\ file_content = FullHeader \o LongParagraph(2000) \o LongParagraph(2001)
    /\ Len(extracted.quotes[1]) = 2000
    /\ extracted.quotes[1] = LongLine(2000)
    /\ Len(extracted.quotes[2]) = 2000
    /\ extracted.quotes[2] # SubSeq(LongLine(2001), 1, 2000)

\* ------------------------------------------------ claims on the metadata

\* The lines of index 6 and 7 are there, and one of them has nothing behind
\* the place where its prefix would end.
MetadataShort(lines) ==
    /\ Len(lines) >= 8
    /\ \/ Len(Strip(lines[7])) <= 9
       \/ Len(Strip(lines[8])) <= 10

\* C21: when the lines of index 6 and 7 are missing or short, the page title
\* extract_quotes_from_file returns is "Unknown - <stem of the file name>":
\* both the title and the author are the fallback values.
C21_MetadataFallback ==
    epc = "returned" =>
        LET lines == Lines(file_content)
        IN  (Len(lines) < 8 \/ MetadataShort(lines)) =>
                extracted.page_title
                    = <<"U", "n", "k", "n", "o", "w", "n", " ", "-", " ">> \o Stem(filename)

\* The title of a line of index 6 and the author of a line of index 7: the
\* line without surrounding whitespace and without its first 9 (10)
\* characters, the title cut in front of the first colon.
TitleFrom(line) == Strip(UpTo(Drop(Strip(line), 9), {":"}))
AuthorFrom(line) == Strip(Drop(Strip(line), 10))

\* "{author} - {title}" of the lines of index 6 and 7.
TitleRule ==
    LET lines == Lines(file_content)
    IN  Len(lines) >= 8 =>
            extracted.page_title
                = AuthorFrom(lines[8]) \o <<" ", "-", " ">> \o TitleFrom(lines[7])

\* The example's body: "> First quote", "- a note", a blank line and
\* "> Second quote", the file ending there or with a blank line.
ExampleBodies == {NotedParagraph \o ClosingParagraph, NotedParagraph \o PlainParagraph}

\* The quotes and the notes of the example.
ExampleQuotesAndNotes ==
    /\ extracted.quotes = << <<"F", "i", "r", "s", "t", " ", "q", "u", "o", "t", "e">>,
                             <<"S", "e", "c", "o", "n", "d", " ", "q", "u", "o", "t", "e">> >>
    /\ extracted.notes = << <<"a", " ", "n", "o", "t", "e">>, <<>> >>

RyanHolidayDailyStoic == <<"R", "y", "a", "n", " ", "H", "o", "l", "i", "d", "a", "y", " ", "-", " ", "D", "a", "i", "l", "y", " ", "S", "t", "o", "i", "c">>

\* C22 as stated: the page title is "{author} - {title}" of the lines of
\* index 6 and 7, and the example with the lines "Title: Daily Stoic: 366..."
\* and "Author: Ryan Holiday" gives the page title "Ryan Holiday - Daily
\* Stoic", the quotes "First quote", "Second quote" and the notes "a note", "".
C22_ExampleAsWritten ==
    epc = "returned" =>
        /\ TitleRule
        /\ \A b \in ExampleBodies :
              file_content = BareHeader \o b =>
                  /\ extracted.page_title = RyanHolidayDailyStoic
                  /\ ExampleQuotesAndNotes

\* C22 (amended): the page title is "{author} - {title}" of the lines of
\* index 6 and 7, the first 9 and the first 10 characters dropped whatever
\* they are: the example with the lines "Title: Daily Stoic: 366..." and
\* "Author: Ryan Holiday" gives "an Holiday - ily Stoic", and gives "Ryan
\* Holiday - Daily Stoic" when the lines are "- Title: Daily Stoic: 366" and
\* "- Author: Ryan Holiday"; the quotes are "First quote", "Second quote" and
\* the notes "a note", "" in both.
C22_PrefixesDropped ==
    epc = "returned" =>
        /\ TitleRule
        /\ \A b \in ExampleBodies :
              /\ file_content = BareHeader \o b =>
                    /\ extracted.page_title = <<"a", "n", " ", "H", "o", "l", "i", "d", "a", "y", " ", "-", " ", "i", "l", "y", " ", "S", "t", "o", "i", "c">>
                    /\ ExampleQuotesAndNotes
              /\ file_content = FullHeader \o b =>
                    /\ extracted.page_title = RyanHolidayDailyStoic
                    /\ ExampleQuotesAndNotes

\* The example has been extracted, from the lines with their prefixes.
C22_Witness ==
    /\ epc = "returned"
    /\ file_content = FullHeader \o NotedParagraph \o ClosingParagraph
    /\ extracted.page_title = RyanHolidayDailyStoic
    /\ Len(extracted.quotes) = 2
    /\ extracted.notes[1] = <<"a", " ", "n", "o", "t", "e">>

\* ------------------------------------------------ claims on the blocks

\* The first lines of the blocks among the lines `ls` from index i on: a
\* line beginning with "> " outside a block starts one, an empty line ends it.
RECURSIVE BlockStarts(_, _, _)
BlockStarts(ls, i, inside) ==
    IF i > Len(ls) THEN <<>>
    ELSE IF ls[i] = <<>> THEN BlockStarts(ls, i + 1, FALSE)
    ELSE IF ~inside /\ StartsWith(ls[i], <<">", " ">>)
         THEN <<i>> \o BlockStarts(ls, i + 1, TRUE)
         ELSE BlockStarts(ls, i + 1, inside)

\* C25: the quotes returned are, in order, the first lines of the paragraphs
\* introduced by a line beginning with "> ", one quote for each, without the
\* marker and without surrounding whitespace; a "> " inside a line starts no
\* block and a block ends at the first blank line or at the end of the file.
C25_OneQuotePerParagraph ==
    epc = "returned" =>
        LET ls == Split(file_content, NL)
            starts == BlockStarts(ls, 1, FALSE)
        IN  extracted.quotes = [k \in 1..Len(starts) |-> Strip(Drop(ls[starts[k]], 2))]

\* C26: the quotes and the notes returned have the same length, and the k-th
\* note is the second line of the k-th block without its leading "-" and
\* without surrounding whitespace where the block has a second line that
\* begins with "-", and "" otherwise.
C26_NotesParallel ==
    epc = "returned" =>
        LET ls == Split(file_content, NL)
            starts == BlockStarts(ls, 1, FALSE)
            Second(k) == IF starts[k] + 1 <= Len(ls) THEN Strip(ls[starts[k] + 1]) ELSE <<>>
        IN  /\ Len(extracted.quotes) = Len(extracted.notes)
            /\ extracted.notes =
                   [k \in 1..Len(starts) |->
                       IF StartsWith(Second(k), <<"-">>) THEN Strip(Drop(Second(k), 1))
                       ELSE <<>>]

\* ------------------------------------------------ process_kindle_highlights

\* What a step did: "ok", "rejected" (an answer other than 200) or "raised".
Outcome(resp) ==
    IF resp.raised THEN "raised" ELSE IF resp.status = 200 THEN "ok" ELSE "rejected"

\* The record of one step kept in `ksteps`.
Step(op, arg, resp) == [op |-> op, arg |-> arg, outcome |-> Outcome(resp)]

\* A step that is no HTTP call: it returns or it raises.
LocalOutcomes == {[raised |-> FALSE, status |-> 200], [raised |-> TRUE, status |-> 0]}

\* create_page, create_database_in_page and append_raw_text_to_page:
\* `if response.status_code != 200: raise Exception(...)`; an exception of
\* `requests` leaves the method as well.
CallRaises_TransportOnly(resp) == resp.raised
CallRaises(resp) == resp.raised \/ resp.status # 200

\* _chunk_text's default chunk_size.
DefaultChunkSize == 1900

\* `except Exception as e: print(...); return False`
ReturnFalse ==
    /\ kpc' = "returned"
    /\ kret' = FALSE

\* What process_kindle_highlights returns behind add_quotes_to_database: the
\* count it returned is not looked at.
ProcessResult_CountChecked(count, total) == count = total
ProcessResult(count, total) == TRUE

\* process_kindle_highlights(input_file, config_path) is called.
ProcessKindleHighlights ==
    /\ kpc = "idle"
    /\ kpc' = "config"
    /\ UNCHANGED <<ksteps, kret>>
    /\ UNCHANGED <<uvars, qvars, fvars, cvars, evars, yvars, rvars>>

\* get_config(config_path): the token and the database id, or an exception
\* (no file, no YAML, a missing key).
GetConfig(resp) ==
    /\ kpc = "config"
    /\ ksteps' = Append(ksteps, Step("get_config", <<>>, resp))
    /\ IF resp.raised THEN ReturnFalse ELSE kpc' = "extract" /\ UNCHANGED kret
    /\ UNCHANGED <<uvars, qvars, fvars, cvars, evars, yvars, rvars>>

\* extract_quotes_from_file: `open(filename)` raises.
OpenFails ==
    /\ kpc = "extract"
    /\ epc = "idle"
    /\ ksteps' = Append(ksteps, Step("open", filename, [raised |-> TRUE, status |-> 0]))
    /\ ReturnFalse
    /\ UNCHANGED <<uvars, qvars, fvars, cvars, evars, yvars, rvars>>

\* extract_quotes_from_file returns the tuple.
ExtractForPipeline ==
    /\ kpc = "extract"
    /\ ExtractQuotesFromFile

\* client.create_page(page_title, database_id): POST /v1/pages.
CreatePage(resp) ==
    /\ kpc = "extract"
    /\ epc = "returned"
    /\ ksteps' = Append(ksteps, Step("create_page", extracted.page_title, resp))
    /\ IF CallRaises(resp) THEN ReturnFalse ELSE kpc' = "create_database" /\ UNCHANGED kret
    /\ UNCHANGED <<uvars, qvars, fvars, cvars, evars, yvars, rvars>>

\* client.create_database_in_page(page_id): POST /v1/databases.
CreateDatabaseInPage(resp) ==
    /\ kpc = "create_database"
    /\ ksteps' = Append(ksteps, Step("create_database", <<>>, resp))
    /\ IF CallRaises(resp) THEN ReturnFalse ELSE kpc' = "heading" /\ UNCHANGED kret
    /\ UNCHANGED <<uvars, qvars, fvars, cvars, evars, yvars, rvars>>

\* client.append_raw_text_to_page(page_id, content), first call: PATCH
\* /v1/blocks/{page_id}/children with the "Source" heading.
AppendHeading(resp) ==
    /\ kpc = "heading"
    /\ ksteps' = Append(ksteps, Step("append_heading", <<>>, resp))
    /\ IF CallRaises(resp) THEN ReturnFalse ELSE kpc' = "raw_page" /\ UNCHANGED kret
    /\ UNCHANGED <<uvars, qvars, fvars, cvars, evars, yvars, rvars>>

\* append_raw_text_to_page, second call: POST /v1/pages with one paragraph
\* per slice of the content. When it returns, add_quotes_to_database is given
\* the quotes and the notes.
CreateRawTextPage(resp) ==
    /\ kpc = "raw_page"
    /\ ksteps' = Append(ksteps, Step("create_raw_page",
                                     RawSlices(extracted.content, DefaultChunkSize), resp))
    /\ IF CallRaises(resp)
       THEN /\ ReturnFalse
            /\ UNCHANGED <<quotes, notes>>
       ELSE /\ kpc' = "rows"
            /\ quotes' = extracted.quotes
            /\ notes' = extracted.notes
            /\ UNCHANGED kret
    /\ UNCHANGED <<qpc, rows, attempts, posts, created, qret, faults>>
    /\ UNCHANGED <<uvars, fvars, cvars, evars, yvars, rvars>>

\* add_quotes_to_database at work.
AddQuotesForPipeline ==
    /\ kpc = "rows"
    /\ NextQuotes

\* add_quotes_to_database returned its count: `return True`.
ReturnTrue ==
    /\ kpc = "rows"
    /\ qpc = "returned"
    /\ kpc' = "returned"
    /\ kret' = ProcessResult(qret, Len(quotes))
    /\ UNCHANGED ksteps
    /\ UNCHANGED <<uvars, qvars, fvars, cvars, evars, yvars, rvars>>

\* add_quotes_to_database raised: the handler returns False.
RowsRaised ==
    /\ kpc = "rows"
    /\ qpc = "raised"
    /\ ReturnFalse
    /\ UNCHANGED ksteps
    /\ UNCHANGED <<uvars, qvars, fvars, cvars, evars, yvars, rvars>>

\* The files given to process_kindle_highlights: the full header and at most
\* MaxSections paragraphs, with and without a note.
KindleFiles ==
    {FullHeader \o Concat(ps) : ps \in SeqUpTo({NotedParagraph, PlainParagraph}, MaxSections)}

InitKindle ==
    /\ UpdateAtRest
    /\ FetcherAtRest
    /\ ChunkerAtRest
    /\ PipelinesAtRest
    /\ epc = "idle"
    /\ filename = <<"h", "i", "g", "h", "l", "i", "g", "h", "t", "s">>
    /\ file_content \in KindleFiles
    /\ extracted = Extraction(<<>>, <<>>, <<>>, <<>>)
    /\ quotes = <<>>
    /\ notes = <<>>
    /\ qpc = "idle"
    /\ rows = <<>>
    /\ attempts = <<>>
    /\ posts = 0
    /\ created = {}
    /\ qret = "none"
    /\ faults = MaxSections

NextKindle ==
    \/ ProcessKindleHighlights
    \/ \E resp \in LocalOutcomes : GetConfig(resp)
    \/ OpenFails
    \/ ExtractForPipeline
    \/ \E resp \in Responses : CreatePage(resp)
    \/ \E resp \in Responses : CreateDatabaseInPage(resp)
    \/ \E resp \in Responses : AppendHeading(resp)
    \/ \E resp \in Responses : CreateRawTextPage(resp)
    \/ AddQuotesForPipeline
    \/ ReturnTrue
    \/ RowsRaised

SpecKindle == InitKindle /\ [][NextKindle]_vars

\* ------------------------------------------------ claims on the Kindle run

\* C23: a structural failure aborts the run: once loading the configuration,
\* creating the parent page or creating the child database has failed, no
\* later step is taken and no row call is issued or row created, and
\* process_kindle_highlights has returned False.
C23_StructuralFailureAborts ==
    \A i \in 1..Len(ksteps) :
        (ksteps[i].op \in {"get_config", "create_page", "create_database"}
             /\ ksteps[i].outcome # "ok") =>
            /\ i = Len(ksteps)
            /\ posts = 0
            /\ created = {}
            /\ kpc = "returned"
            /\ kret = FALSE

\* The child database was refused behind a created parent page, for a file
\* with two quotes.
C23_Witness ==
    /\ Len(ksteps) = 3
    /\ ksteps[2].op = "create_page" /\ ksteps[2].outcome = "ok"
    /\ ksteps[3].op = "create_database" /\ ksteps[3].outcome = "rejected"
    /\ Len(extracted.quotes) = 2
    /\ posts = 0
    /\ kret = FALSE

\* C30: process_kindle_highlights returns True when the configuration, the
\* extraction, the page, the child database and the raw-text append have
\* succeeded and every row call has come back with a response, however many
\* rows were refused; it returns False when one of those steps, or a row
\* call, has raised.
C30_ReturnValue ==
    kpc = "returned" =>
        LET failed == \E i \in 1..Len(ksteps) : ksteps[i].outcome # "ok"
            answered == \A k \in DOMAIN rows : rows[k] \in {"ok", "failed"}
            row_raised == \E k \in DOMAIN rows : rows[k] = "raised"
        IN  /\ (~failed /\ Len(ksteps) = 5 /\ qpc # "idle" /\ answered) => kret = TRUE
            /\ (failed \/ row_raised) => kret = FALSE

\* True was returned although both rows were refused.
C30_Witness ==
    /\ kpc = "returned"
    /\ kret = TRUE
    /\ Len(quotes) = 2
    /\ \A k \in DOMAIN rows : rows[k] = "failed"
    /\ qret = 0

\* ------------------------------------------------ main() of the YouTube pipeline

\* At most MaxItems items come back from the query.
MaxItems == 2

\* extract_youtube_link(item): the "url" of the first URL property the page
\* has, None when it has none.
ExtractYoutubeLink(item) == item.url

\* `if not youtube_link`
NoLink(link) == link = None \/ link = <<>>

\* `transcript.startswith("Error")`
ErrorMark == <<"E", "r", "r", "o", "r">>
FetchFailed_Never(transcript) == FALSE
FetchFailed(transcript) == StartsWith(transcript, ErrorMark)

\* chunk_text's default chunk_size.
ChunkWidth == 1900

\* An item of the query's results: the page id and the page's URL property.
Item(id, url) == [id |-> id, url |-> url]

\* The lists the query can return: items with no URL property, with a watch
\* link and with a link of another site, their ids in the order of the list.
ItemLists ==
    {[k \in 1..Len(us) |-> Item(k, us[k])] :
        us \in SeqUpTo({None, WatchLink, OtherSiteLink}, MaxItems)}

\* The child blocks every page holds before main() runs.
ItemBody == <<[id |-> 1, text |-> <<"o", "l", "d">>]>>

\* What the transcript service does for an item.
ItemFetchOutcomes ==
    {[kind |-> "raise", parts |-> <<>>],
     [kind |-> "parts", parts |-> <<>>],
     [kind |-> "parts", parts |-> <<SegHi>>],
     [kind |-> "parts", parts |-> <<SegError, SegYo>>]}

ItemListOutcomes ==
    {[kind |-> "raise", tracks |-> <<>>],
     [kind |-> "tracks", tracks |-> <<>>],
     [kind |-> "tracks", tracks |-> <<[is_generated |-> TRUE, language_code |-> "de"]>>],
     [kind |-> "tracks", tracks |-> <<[is_generated |-> FALSE, language_code |-> "en"]>>]}

\* The record of an item that has been handled, kept in `handled`.
Handled(item, how) == [id |-> item.id, how |-> how]

\* The fetcher and the page of the item taken in hand: nothing fetched yet,
\* the page as it was.
FreshItem ==
    /\ impl' = program
    /\ fpc' = "idle"
    /\ video_link' = <<>>
    /\ video_id' = <<>>
    /\ tracks' = <<>>
    /\ ti' = 1
    /\ transcript_text' = <<>>
    /\ fret' = Unset
    /\ fcalls' = <<>>
    /\ body' = ItemBody
    /\ nextId' = Len(ItemBody) + 1
    /\ upc' = "idle"
    /\ chunks' = <<>>
    /\ blocks' = <<>>
    /\ di' = 1
    /\ ret' = "none"
    /\ calls' = <<>>
    /\ bodyAtCall' = ItemBody
    /\ prev' = [chunks |-> <<>>, clean |-> FALSE]
    /\ run' = "none"

\* `successful_count += 1` of process_youtube_items; main() of main.py keeps
\* no count.
Counted_Always(success) == successful_count + 1
Counted(success) ==
    IF program = "modular" /\ success THEN successful_count + 1 ELSE successful_count

\* main() is called.
Main(which) ==
    /\ ypc = "idle"
    /\ ypc' = "query"
    /\ program' = which
    /\ UNCHANGED <<youtube_items, yi, transcript_chunks, successful_count, handled>>
    /\ UNCHANGED <<uvars, qvars, fvars, cvars, evars, kvars, rvars>>

\* notion_client.get_youtube_items(): the results on a 200, [] on another
\* status; an exception ends main() in its outer handler.
GetYoutubeItems(resp, items) ==
    /\ ypc = "query"
    /\ IF resp.raised
       THEN /\ ypc' = "done"
            /\ UNCHANGED youtube_items
       ELSE /\ ypc' = "item"
            /\ youtube_items' = IF resp.status = 200 THEN items ELSE <<>>
    /\ UNCHANGED <<program, yi, transcript_chunks, successful_count, handled>>
    /\ UNCHANGED <<uvars, qvars, fvars, cvars, evars, kvars, rvars>>

\* `for item in youtube_items`: the next item is taken; without a link it is
\* passed over.
TakeItem ==
    /\ ypc = "item"
    /\ yi <= Len(youtube_items)
    /\ FreshItem
    /\ IF NoLink(ExtractYoutubeLink(youtube_items[yi]))
       THEN /\ handled' = Append(handled, Handled(youtube_items[yi], "no link"))
            /\ yi' = yi + 1
            /\ UNCHANGED ypc
       ELSE /\ ypc' = "fetch"
            /\ UNCHANGED <<yi, handled>>
    /\ UNCHANGED <<program, youtube_items, transcript_chunks, successful_count>>
    /\ UNCHANGED <<qvars, cvars, evars, kvars, rvars>>

\* get_youtube_transcript(youtube_link) at work, the fetcher of `program`.
FetchForItem ==
    /\ ypc = "fetch"
    /\ \/ GetYoutubeTranscript(program, ExtractYoutubeLink(youtube_items[yi]))
       \/ \E out \in ItemFetchOutcomes : FetchEnglish(out)
       \/ \E out \in ItemListOutcomes : ListTranscripts(out)
       \/ PassManualTrack
       \/ \E out \in ItemFetchOutcomes : FetchGenerated(out)
       \/ \E out \in ItemFetchOutcomes : Translate(out)
       \/ EndGeneratedScan
       \/ \E out \in ItemFetchOutcomes : FetchAnyTrack(out)
       \/ ReturnNoUsable

\* The transcript is looked at: one that starts with "Error" ends the item,
\* any other is split by chunk_text.
CheckTranscript ==
    /\ ypc = "fetch"
    /\ fpc = "done"
    /\ IF FetchFailed(fret)
       THEN /\ handled' = Append(handled, Handled(youtube_items[yi], "failed"))
            /\ yi' = yi + 1
            /\ ypc' = "item"
            /\ UNCHANGED transcript_chunks
       ELSE /\ transcript_chunks' = ChunkTextResult(fret, ChunkWidth)
            /\ ypc' = "update"
            /\ UNCHANGED <<yi, handled>>
    /\ UNCHANGED <<program, youtube_items, successful_count>>
    /\ UNCHANGED <<uvars, qvars, fvars, cvars, evars, kvars, rvars>>

\* notion_client.update_page_with_transcript(page_id, transcript_chunks) at
\* work.
UpdateForItem ==
    /\ ypc = "update"
    /\ \/ upc = "idle" /\ CallUpdate(transcript_chunks)
       \/ \E resp \in Responses : ListBlocks(resp)
       \/ \E resp \in Responses : DeleteBlock(resp)
       \/ \E resp \in Responses : AppendChildren(resp)

\* `except Exception as e: print(f"Error updating page ...")` around the
\* update, inside the loop: every Exception is caught there.
CaughtInLoop_Escapes(exc) == FALSE
CaughtInLoop(exc) == TRUE

\* The update returned, or raised and was caught: the item is over. An
\* exception that is not caught there ends main() in its outer handler.
EndItem ==
    /\ ypc = "update"
    /\ upc \in {"returned", "raised"}
    /\ IF upc = "raised" /\ ~CaughtInLoop(ExcText)
       THEN /\ ypc' = "done"
            /\ UNCHANGED <<handled, successful_count, yi>>
       ELSE /\ handled' = Append(handled, Handled(youtube_items[yi],
                             IF upc = "raised" THEN "raised"
                             ELSE IF ret = TRUE THEN "updated" ELSE "not updated"))
            /\ successful_count' = Counted(upc = "returned" /\ ret = TRUE)
            /\ yi' = yi + 1
            /\ ypc' = "item"
    /\ UNCHANGED <<program, youtube_items, transcript_chunks>>
    /\ UNCHANGED <<uvars, qvars, fvars, cvars, evars, kvars, rvars>>

\* The loop is over.
EndMain ==
    /\ ypc = "item"
    /\ yi > Len(youtube_items)
    /\ ypc' = "done"
    /\ UNCHANGED <<program, youtube_items, yi, transcript_chunks, successful_count, handled>>
    /\ UNCHANGED <<uvars, qvars, fvars, cvars, evars, kvars, rvars>>

InitMain ==
    /\ UpdateAtRest
    /\ QuotesAtRest
    /\ FetcherAtRest
    /\ ChunkerAtRest
    /\ ExtractorAtRest
    /\ PipelinesAtRest

NextMain ==
    \/ \E which \in {"class", "modular"} : Main(which)
    \/ \E resp \in Responses : \E items \in ItemLists : GetYoutubeItems(resp, items)
    \/ TakeItem
    \/ FetchForItem
    \/ CheckTranscript
    \/ UpdateForItem
    \/ EndItem
    \/ EndMain

SpecMain == InitMain /\ [][NextMain]_vars

\* ------------------------------------------------ claims on the YouTube run

\* The index of the item whose fetch and whose page update the fetcher and
\* the page variables hold: the item in hand, or the item handled last.
InHand == IF ypc \in {"fetch", "update"} THEN yi ELSE yi - 1

\* get_youtube_transcript has returned one of its failure results.
ReturnedFailure ==
    /\ fpc = "done"
    /\ \/ fret = InvalidUrlResult
       \/ fret = NoUsableResult
       \/ StartsWith(fret, NoTranscriptsResult(<<>>))
       \/ StartsWith(fret, ErrorGettingResult(<<>>))

\* get_youtube_transcript has returned the text the service gave for a track.
ReturnedText ==
    /\ fpc = "done"
    /\ ~ReturnedFailure
    /\ \E i \in 1..Len(fcalls) : fcalls[i].kind = "parts" /\ fret = Join(fcalls[i].parts)

\* The number of items whose page update returned True.
UpdatedItems == Cardinality({k \in 1..Len(handled) : handled[k].how = "updated"})

\* C24: one item never ends the batch: the items are handled once each, in
\* the order of the query's results, whatever became of the items before
\* (no link, no transcript, an update that returned False or raised); when
\* main() is over every item the query returned has been handled, and the
\* count of process_youtube_items is the number of items whose page update
\* returned True.
C24_BatchNeverAborted ==
    /\ Len(handled) <= Len(youtube_items)
    /\ \A k \in 1..Len(handled) : handled[k].id = youtube_items[k].id
    /\ ypc \in {"item", "done"} => Len(handled) = yi - 1
    /\ ypc = "done" => Len(handled) = Len(youtube_items)
    /\ program = "modular" => successful_count = UpdatedItems

\* The run of src/main.py is over: the update of the first item raised, the
\* second item was updated and counted.
C24_Witness ==
    /\ ypc = "done"
    /\ program = "modular"
    /\ Len(handled) = 2
    /\ handled[1].how = "raised"
    /\ handled[2].how = "updated"
    /\ successful_count = 1

\* C27: for an item without a URL property, and for an item whose transcript
\* fetch returned a failure, no call is issued on the item's page (no
\* listing, no delete, no append) and the page's body stays as it was.
C27_PageUntouched ==
    (/\ InHand \in 1..Len(youtube_items)
     /\ NoLink(youtube_items[InHand].url) \/ ReturnedFailure) =>
        /\ calls = <<>>
        /\ upc = "idle"
        /\ body = ItemBody

\* An item whose video has no usable transcript has been passed over, after
\* the service was asked.
C27_Witness ==
    /\ ypc = "item"
    /\ handled # <<>>
    /\ handled[Len(handled)].how = "failed"
    /\ fret = NoUsableResult
    /\ fcalls # <<>>
    /\ body = ItemBody

\* C28: an item whose fetch returned the text of a track reaches the page
\* update with the chunks of that text, whatever the text is; an item is
\* passed over as failed only when the fetch returned a failure.
C28_TextReachesUpdate ==
    InHand \in 1..Len(youtube_items) =>
        /\ (ypc \in {"item", "done"} /\ ReturnedText) =>
               /\ handled[InHand].how # "failed"
               /\ chunks = ChunkTextResult(fret, 1900)
        /\ (ypc \in {"item", "done"} /\ handled[InHand].how = "failed") => ReturnedFailure

\* ------------------------------------------------ the two fetchers side by side

\* The other get_youtube_transcript.
Other(which) == IF which = "class" THEN "modular" ELSE "class"

\* The transcript service does for the second run what it did for the
\* first: a call the first run made too (the same operation on the same
\* track in the same loop) has the outcome it had there.
SameService(op, scan, track, out) ==
    \A i \in 1..Len(ref.calls) :
        (ref.calls[i].op = op /\ ref.calls[i].scan = scan /\ ref.calls[i].track = track) =>
            /\ out.kind = ref.calls[i].kind
            /\ out.kind = "parts" => out.parts = ref.calls[i].parts
            /\ out.kind = "tracks" => out.tracks = ref.tracks

\* The first run is over: what it returned and what it called is kept, and
\* the other get_youtube_transcript is called with the same link.
RunOther ==
    /\ ref = NoRun
    /\ fpc = "done"
    /\ ref' = [impl |-> impl, ret |-> fret, calls |-> fcalls, tracks |-> tracks]
    /\ fpc' = "idle"
    /\ impl' = Other(impl)
    /\ video_id' = <<>>
    /\ tracks' = <<>>
    /\ ti' = 1
    /\ transcript_text' = <<>>
    /\ fret' = Unset
    /\ fcalls' = <<>>
    /\ UNCHANGED video_link
    /\ UNCHANGED <<uvars, qvars, cvars, evars, kvars, yvars>>

\* The links both are called with: one with a video id, one without, and
\* no link at all.
ComparedLinks == {WatchLink, OtherSiteLink, None}

\* A step of the run under way: the static method runs first, the modular
\* function second.
RunStep ==
    \/ /\ ref = NoRun
       /\ \E link \in ComparedLinks : GetYoutubeTranscript("class", link)
    \/ /\ ref # NoRun
       /\ impl # ref.impl
       /\ GetYoutubeTranscript(impl, video_link)
    \/ \E out \in FetchOutcomes :
          SameService("get_transcript", 0, 0, out) /\ FetchEnglish(out)
    \/ \E out \in ListOutcomes :
          SameService("list_transcripts", 0, 0, out) /\ ListTranscripts(out)
    \/ PassManualTrack
    \/ \E out \in FetchOutcomes : SameService("fetch", 1, ti, out) /\ FetchGenerated(out)
    \/ \E out \in FetchOutcomes : SameService("translate", 1, ti, out) /\ Translate(out)
    \/ EndGeneratedScan
    \/ \E out \in FetchOutcomes : SameService("fetch", 2, ti, out) /\ FetchAnyTrack(out)
    \/ ReturnNoUsable

NextBoth ==
    \/ RunStep
    \/ RunOther

SpecBoth == InitFetch /\ [][NextBoth]_vars

\* C29: the two fetchers are equivalent: called with the same link while the
\* transcript service behaves the same, they return the same string and
\* issue the same calls in the same order.
C29_FetchersEquivalent ==
    (ref # NoRun /\ fpc = "done") =>
        /\ fret = ref.ret
        /\ fcalls = ref.calls

====
